---- MODULE Spec2Model ----
\* Verification model of the resumable batch-enrichment engine:
\*   - GeocoderBatch (src/batch.py): row loop with progress file and output file
\*   - process_restaurants / main (src/geocode-new.py): row loop with periodic save
\*   - geocode_restaurant_strict (src/geocode-new.py): ordered candidate validation
\*   - HistoricalTrafficModel (src/optimized_geo_generator.py): the traffic factor
\*   - zone generation (src/optimized_geo_generator.py, src/geoJson_generator.py):
\*     the band loops and process_single_provider
\*   - the HTTP clients of the three services: their retry loops
EXTENDS Integers, Sequences, FiniteSets, TLC

\* ------------------------------------------------------------------------
\* Bounds of the model
\* ------------------------------------------------------------------------
\* number of rows of the dataset (len(self.df))
NumRows == 4
\* number of times the script is started on the same files
MaxRuns == 2
\* src/batch.py:18 sets 50; the model keeps the modulus test of line 193 and
\* scales the interval so that several intervals fit into NumRows rows
AUTO_SAVE_INTERVAL == 2
\* src/geocode-new.py:646 defaults to 20; scaled like AUTO_SAVE_INTERVAL
save_interval == 2

\* number of rows of the workbook of the zone flow
NumTasks == 3
\* number of work items whose zone file names are compared
NumItems == 2
\* max_workers of the thread pool (geoJson_generator.py:133 defaults to 10),
\* scaled so that rows wait in the queue of the pool
max_workers == 2

Tasks == 0 .. (NumTasks - 1)

Rows == 0 .. (NumRows - 1)

VARIABLES
    \* ---- files on disk (survive the process) ----
    input_file,      \* input workbook: row -> TRUE iff its Latitude cell is populated
    progress_file,   \* <stem>_progress.json : [st, rec]
    output_file,     \* <stem>_with_location.xlsx : [st, rows]
    \* ---- GeocoderBatch object and the position of process() ----
    df,              \* self.df, Latitude column: "nan" | "in" (from input) | "geo" (from the API)
    progress,        \* self.progress
    pc,              \* position of the run
    idx,             \* loop variable of process()
    lat,             \* local lat returned by self.geocode: "nan" = None, "geo" = a value
    ret,             \* which call site the running save_progress/save_output pair belongs to
    \* ---- observation (history) variables ----
    runs,            \* number of runs started so far
    last_end,        \* how the previous run ended ("none" for the first run)
    loaded_from,     \* st of the progress file read by load_progress of this run
    sent,            \* rows sent to the geocoder by this run
    pending,         \* rows whose API outcome is in memory and not in a written output file
    intr_idx,        \* loop index at which the stop signal was delivered (-1: none)
    done_output      \* output file left by the last cleanly completed run

VARIABLES
    \* ---- geocode_restaurant_strict (src/geocode-new.py) ----
    g_expected,      \* the arguments: provider_name, city, state, pincode
    g_pc,            \* "query" while the loop over search_queries runs, then "returned"
    g_q,             \* 1-based index of the next entry of search_queries
    g_calls,         \* number of search_place_strict calls issued
    g_last,          \* the candidate of the last call and how far its validation went
    g_result,        \* the result dictionary
    g_trace,         \* the search_place_strict calls and the time.sleep calls made, in order
    g_sent           \* the query of every search_place_strict call and what the call led to

strictVars == << g_expected, g_pc, g_q, g_calls, g_last, g_result, g_trace, g_sent >>

VARIABLES
    \* ---- process_restaurants (src/geocode-new.py) ----
    r_input,         \* input workbook: row -> what the row holds
    r_start_row,     \* the start_row argument
    r_df,            \* df, Found_Restaurant_Name column: "nan" | "in" | "geo"
    r_out,           \* the output workbook on disk
    r_pc,            \* position of the run
    r_idx,           \* loop variable
    r_result,        \* outcome of the geocode_restaurant_strict call in progress
    r_cnt,           \* processed, successful, failed and the two skip counters
    r_pending,       \* rows whose API outcome is in memory only
    r_writes,        \* number of df.to_excel calls made so far
    r_sig_writes     \* r_writes when the stop signal was delivered (-1: no signal)

restVars == << r_input, r_start_row, r_df, r_out, r_pc, r_idx, r_result, r_cnt, r_pending,
               r_writes, r_sig_writes >>

batchVars == << input_file, progress_file, output_file, df, progress, pc, idx, lat, ret,
                runs, last_end, loaded_from, sent, pending, intr_idx, done_output >>

VARIABLES
    \* ---- HistoricalTrafficModel (src/optimized_geo_generator.py) ----
    t_pincode,       \* the pincode argument: a number whose str() is the pincode string
    t_hour,          \* the hour argument
    t_day_of_week,   \* the day_of_week argument
    t_month,         \* date.month
    t_learned,       \* self.learned_patterns[(str(pincode), hour, day_of_week)] or NoPattern
    t_pc,            \* "call" before a method of the model is applied, then "done"
    t_out            \* what the applied method returned or raised

trafficVars == << t_pincode, t_hour, t_day_of_week, t_month, t_learned, t_pc, t_out >>

VARIABLES
    \* ---- zone generation (src/optimized_geo_generator.py, src/geoJson_generator.py) ----
    z_impl,          \* which generator and processor run: "optimized" or "plain"
    z_task,          \* the task: pincode, hour, day_of_week, date, bands, mode
    z_pc,            \* "bands" while the band loops run, "combine", then "returned"
    z_sent,          \* the contour of every request sent to the routing service, in order
    z_outcomes,      \* what each of these requests ended in
    z_features,      \* all_features
    z_result,        \* what process_single_provider returned
    z_files          \* the files in output_dir

zoneVars == << z_impl, z_task, z_pc, z_sent, z_outcomes, z_features, z_result, z_files >>

VARIABLES
    \* ---- one call of an HTTP client ----
    c_client,        \* which client function is called
    c_args,          \* its arguments: max_retries (retry_count), mode, day_of_week
    c_pc,            \* "enter", "attempt" inside the retry loop, "returned" or "raised"
    c_attempt,       \* the loop variable attempt
    c_log,           \* the status of every attempt made, in order
    c_slept,         \* seconds slept inside the call
    c_ret            \* the value returned, or the exception raised

clientVars == << c_client, c_args, c_pc, c_attempt, c_log, c_slept, c_ret >>

VARIABLES
    \* ---- the entry of a batch flow and its test of the input columns ----
    s_flow,          \* the flow that is started
    s_columns,       \* df.columns of the input workbook
    s_pc,            \* position of the run
    s_idx,           \* loop variable of GeocoderBatch.process
    s_error,         \* the exception that ended the run: its type and the columns it names
    s_log            \* what the run has done: "api_call", "output_written"

schemaVars == << s_flow, s_columns, s_pc, s_idx, s_error, s_log >>

VARIABLES
    \* ---- SmartBatchProcessor / ExcelBatchProcessor: a run over one workbook ----
    p_impl,          \* "plain" (geoJson_generator.py) or "optimized" (optimized_geo_generator.py)
    p_skip_existing, \* the skip_existing argument of load_from_excel
    p_rows,          \* workbook and output_dir at the start: row -> [zones_file, own, other]
    p_pc,            \* position of the orchestrator (the main thread)
    p_idx,           \* loop variable of load_from_excel
    p_lists,         \* all_tasks, skipped_excel and skipped_file, as lists of excel_idx
    p_futures,       \* futures and their worker threads: excel_idx -> [st, status, reg, late]
    p_results,       \* the list results of process_batch, in arrival order
    p_df,            \* df in memory: row -> [zones_file, processing_status]
    p_disk,          \* the output workbook and the summary file
    p_stats,         \* self.generator.stats, one object shared by all worker threads
    p_signal         \* KeyboardInterrupt was raised in the main thread

poolVars == << p_impl, p_skip_existing, p_rows, p_pc, p_idx, p_lists, p_futures, p_results,
               p_df, p_disk, p_stats, p_signal >>

VARIABLES
    \* ---- process_restaurants (src/geocode_restaurants.py) ----
    e_input,         \* input workbook: row -> [name, city, located]
    e_pc,            \* position of the run
    e_idx,           \* loop variable
    e_cnt,           \* processed, successful, failed, skipped
    e_calls,         \* rows for which a request was sent to the Places API
    e_df,            \* df, lat column: "nan" | "in" | "geo"
    e_out            \* the output workbook on disk

enhVars == << e_input, e_pc, e_idx, e_cnt, e_calls, e_df, e_out >>

VARIABLES
    \* ---- the zone files of one batch (src/geoJson_generator.py, src/organizer.py) ----
    f_tasks,         \* the tasks of the batch: item -> [bpp_id, name, provider_id, pincode]
    f_writes,        \* the files the workers opened for writing, in order: [item, filename]
    f_parsed         \* what BatchOutputOrganizer.parse_filename returned for files of output_dir

fileVars == << f_tasks, f_writes, f_parsed >>

\* the variables each flow leaves alone
nonBatchVars == << strictVars, restVars, trafficVars, zoneVars, clientVars, schemaVars, poolVars, enhVars, fileVars >>
nonStrictVars == << batchVars, restVars, trafficVars, zoneVars, clientVars, schemaVars, poolVars, enhVars, fileVars >>
nonRestVars == << batchVars, strictVars, trafficVars, zoneVars, clientVars, schemaVars, poolVars, enhVars, fileVars >>
nonTrafficVars == << batchVars, strictVars, restVars, zoneVars, clientVars, schemaVars, poolVars, enhVars, fileVars >>
nonZoneVars == << batchVars, strictVars, restVars, trafficVars, clientVars, schemaVars, poolVars, enhVars, fileVars >>
nonClientVars == << batchVars, strictVars, restVars, trafficVars, zoneVars, schemaVars, poolVars, enhVars, fileVars >>
nonSchemaVars == << batchVars, strictVars, restVars, trafficVars, zoneVars, clientVars, poolVars, enhVars, fileVars >>
nonPoolVars == << batchVars, strictVars, restVars, trafficVars, zoneVars, clientVars, schemaVars, enhVars, fileVars >>
nonEnhVars == << batchVars, strictVars, restVars, trafficVars, zoneVars, clientVars, schemaVars, poolVars, fileVars >>
nonFileVars == << batchVars, strictVars, restVars, trafficVars, zoneVars, clientVars, schemaVars, poolVars, enhVars >>

\* ------------------------------------------------------------------------
\* GeocoderBatch: records
\* ------------------------------------------------------------------------
\* the record load_progress returns when no progress file exists
ZeroProgress ==
    [ last_row |-> 0, processed_count |-> 0, success_count |-> 0, fail_count |-> 0 ]

NoFile == [ st |-> "absent", rec |-> ZeroProgress ]

NoOutput == [ st |-> "absent", rows |-> [ r \in Rows |-> "nan" ] ]

\* pd.read_excel(self.input_file) followed by the column defaulting of __init__
ReadInput(f) == [ r \in Rows |-> IF f[r] THEN "in" ELSE "nan" ]

\* load_progress: the record of an existing file, a fresh record when there is
\* no file; json.load raises on an empty or truncated file and nothing catches it
load_progress(f) ==
    IF f.st = "absent" THEN [ ok |-> TRUE, rec |-> ZeroProgress ]
    ELSE IF f.st = "complete" THEN [ ok |-> TRUE, rec |-> f.rec ]
    ELSE [ ok |-> FALSE, rec |-> ZeroProgress ]

\* ------------------------------------------------------------------------
\* GeocoderBatch: actions
\* ------------------------------------------------------------------------
\* GeocoderBatch.__init__
Construct ==
    /\ pc = "init"
    /\ LET p == load_progress(progress_file) IN
         /\ df' = ReadInput(input_file)
         /\ progress' = p.rec
         /\ loaded_from' = progress_file.st
         /\ IF p.ok
              THEN /\ pc' = "loop"
                   /\ idx' = p.rec.last_row        \* start_row = self.progress['last_row']
              ELSE /\ pc' = "load_error"
                   /\ idx' = 0
    /\ UNCHANGED << input_file, progress_file, output_file, lat, ret, runs, last_end,
                    sent, pending, intr_idx, done_output >>
    /\ UNCHANGED nonBatchVars

\* lines 163-166: the row already has a Latitude
SkipRow ==
    /\ pc = "loop"
    /\ idx < NumRows
    /\ df[idx] # "nan"
    /\ progress' = [ progress EXCEPT !.processed_count = @ + 1, !.success_count = @ + 1 ]
    /\ idx' = idx + 1
    /\ UNCHANGED << input_file, progress_file, output_file, df, pc, lat, ret, runs, last_end,
                    loaded_from, sent, pending, intr_idx, done_output >>
    /\ UNCHANGED nonBatchVars

\* lines 169-177: the call self.geocode(...) is issued
StartGeocode ==
    /\ pc = "loop"
    /\ idx < NumRows
    /\ df[idx] = "nan"
    /\ pc' = "geocode"
    /\ sent' = sent \cup { idx }
    /\ UNCHANGED << input_file, progress_file, output_file, df, progress, idx, lat, ret, runs,
                    last_end, loaded_from, pending, intr_idx, done_output >>
    /\ UNCHANGED nonBatchVars

\* self.geocode returns (lat, lon, link) or (None, None, None)
GeocodeReturn ==
    /\ pc = "geocode"
    /\ \E outcome \in { "geo", "nan" } : lat' = outcome
    /\ pc' = "store"
    /\ UNCHANGED << input_file, progress_file, output_file, df, progress, idx, ret, runs,
                    last_end, loaded_from, sent, pending, intr_idx, done_output >>
    /\ UNCHANGED nonBatchVars

\* lines 179-187
StoreResult ==
    /\ pc = "store"
    /\ IF lat # "nan"
         THEN /\ df' = [ df EXCEPT ![idx] = lat ]
              /\ progress' = [ progress EXCEPT !.success_count = @ + 1 ]
         ELSE /\ df' = df
              /\ progress' = [ progress EXCEPT !.fail_count = @ + 1 ]
    /\ pending' = pending \cup { idx }
    /\ pc' = "advance"
    /\ UNCHANGED << input_file, progress_file, output_file, idx, lat, ret, runs, last_end,
                    loaded_from, sent, intr_idx, done_output >>
    /\ UNCHANGED nonBatchVars

\* lines 189-193: counters, last_row and the auto-save test
Advance ==
    /\ pc = "advance"
    /\ progress' = [ progress EXCEPT !.processed_count = @ + 1, !.last_row = idx + 1 ]
    /\ IF (idx + 1) % AUTO_SAVE_INTERVAL = 0
         THEN /\ pc' = "sp_open"
              /\ ret' = "auto"
              /\ idx' = idx
         ELSE /\ pc' = "loop"
              /\ ret' = ret
              /\ idx' = idx + 1
    /\ UNCHANGED << input_file, progress_file, output_file, df, lat, runs, last_end,
                    loaded_from, sent, pending, intr_idx, done_output >>
    /\ UNCHANGED nonBatchVars

\* line 153 exhausted, lines 205-208: the final save starts
LoopExit ==
    /\ pc = "loop"
    /\ idx >= NumRows
    /\ pc' = "sp_open"
    /\ ret' = "final"
    /\ UNCHANGED << input_file, progress_file, output_file, df, progress, idx, lat, runs,
                    last_end, loaded_from, sent, pending, intr_idx, done_output >>
    /\ UNCHANGED nonBatchVars

\* save_progress, line 65: open(..., 'w') truncates the file
save_progress_open ==
    /\ pc = "sp_open"
    /\ progress_file' = [ st |-> "partial", rec |-> ZeroProgress ]
    /\ pc' = "sp_dump"
    /\ UNCHANGED << input_file, output_file, df, progress, idx, lat, ret, runs, last_end,
                    loaded_from, sent, pending, intr_idx, done_output >>
    /\ UNCHANGED nonBatchVars

\* save_progress, line 66: json.dump and the close of the with block
save_progress_dump ==
    /\ pc = "sp_dump"
    /\ progress_file' = [ st |-> "complete", rec |-> progress ]
    /\ pc' = "save_output"
    /\ UNCHANGED << input_file, output_file, df, progress, idx, lat, ret, runs, last_end,
                    loaded_from, sent, pending, intr_idx, done_output >>
    /\ UNCHANGED nonBatchVars

\* save_output, then back to the call site (lines 196, 209, 219)
save_output ==
    /\ pc = "save_output"
    /\ output_file' = [ st |-> "written", rows |-> df ]
    /\ pending' = {}
    /\ IF ret = "auto" THEN pc' = "loop" /\ idx' = idx + 1
       ELSE IF ret = "final" THEN pc' = "unlink" /\ idx' = idx
       ELSE pc' = "interrupted" /\ idx' = idx
    /\ UNCHANGED << input_file, progress_file, df, progress, lat, ret, runs, last_end,
                    loaded_from, sent, intr_idx, done_output >>
    /\ UNCHANGED nonBatchVars

\* Unlink with the removal of the progress file left out
Unlink_keep ==
    /\ pc = "unlink"
    /\ pc' = "unlinked"
    /\ UNCHANGED << input_file, progress_file, output_file, df, progress, idx, lat, ret, runs,
                    last_end, loaded_from, sent, pending, intr_idx, done_output >>
    /\ UNCHANGED nonBatchVars

\* lines 212-213
Unlink ==
    /\ pc = "unlink"
    /\ progress_file' = IF progress_file.st # "absent" THEN NoFile ELSE progress_file
    /\ pc' = "unlinked"
    /\ UNCHANGED << input_file, output_file, df, progress, idx, lat, ret, runs, last_end,
                    loaded_from, sent, pending, intr_idx, done_output >>
    /\ UNCHANGED nonBatchVars

\* line 214 and the end of the try block; the summary of lines 225-231 follows
Finish ==
    /\ pc = "unlinked"
    /\ pc' = "done"
    /\ UNCHANGED << input_file, progress_file, output_file, df, progress, idx, lat, ret, runs,
                    last_end, loaded_from, sent, pending, intr_idx, done_output >>
    /\ UNCHANGED nonBatchVars

\* positions inside the try block of process() (lines 152-214)
TryPcs == { "loop", "geocode", "store", "advance", "sp_open", "sp_dump", "save_output",
            "unlink", "unlinked" }

\* lines 216-218: KeyboardInterrupt raised inside the try block; one stop signal per run
Interrupt ==
    /\ pc \in TryPcs
    /\ intr_idx = -1
    /\ intr_idx' = idx
    /\ pc' = "sp_open"
    /\ ret' = "intr"
    /\ UNCHANGED << input_file, progress_file, output_file, df, progress, idx, lat, runs,
                    last_end, loaded_from, sent, pending, done_output >>
    /\ UNCHANGED nonBatchVars

\* the process dies (power loss, kill): nothing more is written
Crash ==
    /\ pc \in TryPcs \cup { "init" }
    /\ pc' = "crashed"
    /\ UNCHANGED << input_file, progress_file, output_file, df, progress, idx, lat, ret, runs,
                    last_end, loaded_from, sent, pending, intr_idx, done_output >>
    /\ UNCHANGED nonBatchVars

EndPcs == { "done", "interrupted", "crashed", "load_error" }

\* the script is started again on the same files (__main__, lines 234-257)
Restart ==
    /\ pc \in EndPcs
    /\ runs < MaxRuns
    /\ runs' = runs + 1
    /\ last_end' = pc
    /\ done_output' = IF pc = "done" THEN output_file ELSE done_output
    /\ pc' = "init"
    /\ df' = [ r \in Rows |-> "nan" ]
    /\ progress' = ZeroProgress
    /\ idx' = 0
    /\ lat' = "nan"
    /\ ret' = "none"
    /\ loaded_from' = "none"
    /\ sent' = {}
    /\ pending' = {}
    /\ intr_idx' = -1
    /\ UNCHANGED << input_file, progress_file, output_file >>
    /\ UNCHANGED nonBatchVars

\* ------------------------------------------------------------------------
\* geocode-new.py: strings, scores and the validation helpers
\* ------------------------------------------------------------------------
\* Names are sequences of one-character strings. None and '' are both the
\* empty sequence (both are falsy where the code tests them).
None == << >>

\* str.lower() on one character of the names' alphabet
LowerChar(c) == IF c = "A" THEN "a" ELSE IF c = "B" THEN "b" ELSE c

lower(s) == [ i \in 1 .. Len(s) |-> LowerChar(s[i]) ]

RECURSIVE lstrip(_)
lstrip(s) == IF s # << >> /\ Head(s) = " " THEN lstrip(Tail(s)) ELSE s

RECURSIVE rstrip(_)
rstrip(s) == IF s # << >> /\ s[Len(s)] = " " THEN rstrip(SubSeq(s, 1, Len(s) - 1)) ELSE s

\* str.strip()
strip(s) == rstrip(lstrip(s))

\* the Python test "a in b" on strings
IsSubstring(a, b) ==
    \E i \in 0 .. (Len(b) - Len(a)) : SubSeq(b, i + 1, i + Len(a)) = a

\* set(s.split()): the whitespace-separated words of s
RECURSIVE SplitWords(_, _, _)
SplitWords(s, cur, acc) ==
    IF s = << >> THEN (IF cur = << >> THEN acc ELSE acc \cup { cur })
    ELSE IF Head(s) = " "
         THEN SplitWords(Tail(s), << >>, IF cur = << >> THEN acc ELSE acc \cup { cur })
         ELSE SplitWords(Tail(s), Append(cur, Head(s)), acc)

\* lines 369-375: characters of found matched in order against expected
RECURSIVE MatchInOrder(_, _, _)
MatchInOrder(found, expected, exp_idx) ==
    IF found = << >> THEN 0
    ELSE IF exp_idx < Len(expected) /\ Head(found) = expected[exp_idx + 1]
         THEN 1 + MatchInOrder(Tail(found), expected, exp_idx + 1)
         ELSE MatchInOrder(Tail(found), expected, exp_idx)

Max(a, b) == IF a >= b THEN a ELSE b

Min(a, b) == IF a <= b THEN a ELSE b

RECURSIVE GCD(_, _)
GCD(a, b) == IF b = 0 THEN a ELSE GCD(b, a % b)

\* a score n/d in lowest terms (the code's float)
Frac(n, d) == IF n = 0 THEN << 0, 1 >> ELSE << n \div GCD(n, d), d \div GCD(n, d) >>

\* x >= y and max(x, y) on scores
ScoreGE(x, y) == x[1] * y[2] >= y[1] * x[2]

ScoreMax(x, y) == IF ScoreGE(x, y) THEN x ELSE y

\* line 348
stop_words ==
    { << "r", "e", "s", "t", "a", "u", "r", "a", "n", "t" >>, << "c", "a", "f", "e" >>,
      << "h", "o", "t", "e", "l" >>, << "f", "o", "o", "d", "s" >>,
      << "k", "i", "t", "c", "h", "e", "n" >>, << "t", "h", "e" >>, << "a" >>,
      << "a", "n" >>, << "a", "n", "d" >>, << "b", "y" >> }

\* validate_restaurant_name: (is_match, similarity_score)
validate_restaurant_name(found_name, expected_name, threshold) ==
    IF found_name = << >> \/ expected_name = << >>
    THEN [ is_match |-> FALSE, score |-> Frac(0, 1) ]
    ELSE
    LET found_clean == strip(lower(found_name))
        expected_clean == strip(lower(expected_name))
        shorter == Min(Len(expected_clean), Len(found_clean))
        longer == Max(Len(expected_clean), Len(found_clean))
        ratio == IF longer > 0 THEN Frac(shorter, longer) ELSE Frac(0, 1)
        expected_words == SplitWords(expected_clean, << >>, {})
        found_words == SplitWords(found_clean, << >>, {})
        expected_words_clean ==
            IF expected_words \ stop_words = {} THEN expected_words
            ELSE expected_words \ stop_words
        found_words_clean ==
            IF found_words \ stop_words = {} THEN found_words ELSE found_words \ stop_words
        both_words == expected_words_clean # {} /\ found_words_clean # {}
        overlap == Cardinality(expected_words_clean \cap found_words_clean)
        max_len == Max(Cardinality(expected_words_clean), Cardinality(found_words_clean))
        similarity == IF max_len > 0 THEN Frac(overlap, max_len) ELSE Frac(0, 1)
        char_similarity == Frac(MatchInOrder(found_clean, expected_clean, 0), longer)
    IN  IF found_clean = expected_clean
        THEN [ is_match |-> TRUE, score |-> Frac(1, 1) ]
        ELSE IF (IsSubstring(expected_clean, found_clean)
                    \/ IsSubstring(found_clean, expected_clean))
                /\ ScoreGE(ratio, threshold)
        THEN [ is_match |-> TRUE, score |-> ratio ]
        ELSE IF both_words /\ ScoreGE(similarity, threshold)
        THEN [ is_match |-> TRUE, score |-> similarity ]
        ELSE IF ScoreGE(char_similarity, threshold)
        THEN [ is_match |-> TRUE, score |-> char_similarity ]
        ELSE [ is_match |-> FALSE,
               score |-> ScoreMax(IF both_words THEN similarity ELSE Frac(0, 1),
                                  char_similarity) ]

\* City and state names are whole strings; an address is described by the set
\* of lower-case fragments its text contains and by the 6-digit groups in it.
\* str.lower().strip() on the city and state strings of the model
LowerName(s) ==
    IF s = "Pune" THEN "pune"
    ELSE IF s = " Mumbai" THEN "mumbai"
    ELSE IF s = "Maharashtra" THEN "maharashtra"
    ELSE IF s = "Delhi" THEN "delhi"
    ELSE s

\* lines 243-254
city_variations ==
    ( "bangalore" :> "bengaluru" @@ "bengaluru" :> "bangalore" @@ "bombay" :> "mumbai"
      @@ "mumbai" :> "bombay" @@ "calcutta" :> "kolkata" @@ "kolkata" :> "calcutta"
      @@ "madras" :> "chennai" @@ "chennai" :> "madras" @@ "pune" :> "poona"
      @@ "poona" :> "pune" )

\* lines 287-298
state_abbrev ==
    ( "andhra pradesh" :> { "ap", "a.p." } @@ "arunachal pradesh" :> { "arunachal" }
      @@ "himachal pradesh" :> { "hp", "h.p." } @@ "madhya pradesh" :> { "mp", "m.p." }
      @@ "tamil nadu" :> { "tn", "t.n.", "tamilnadu" } @@ "uttar pradesh" :> { "up", "u.p." }
      @@ "west bengal" :> { "wb", "w.b.", "bengal" } @@ "delhi" :> { "new delhi", "ncr" }
      @@ "jammu and kashmir" :> { "j&k", "jk", "jammu" }
      @@ "puducherry" :> { "pondicherry", "pondy" } )

\* validate_city_match
validate_city_match(found_address, expected_city) ==
    IF ~found_address.present \/ expected_city = "" THEN FALSE
    ELSE LET city_clean == LowerName(expected_city) IN
         \/ city_clean \in found_address.contains
         \/ /\ city_clean \in DOMAIN city_variations
            /\ city_variations[city_clean] \in found_address.contains

\* validate_state_match
validate_state_match(found_address, expected_state) ==
    IF ~found_address.present \/ expected_state = "" THEN FALSE
    ELSE LET state_clean == LowerName(expected_state) IN
         \/ state_clean \in found_address.contains
         \/ /\ state_clean \in DOMAIN state_abbrev
            /\ state_abbrev[state_clean] \cap found_address.contains # {}

\* extract_pincode_from_address: the last 6-digit group of the address, or None
extract_pincode_from_address(address) ==
    IF ~address.present THEN None
    ELSE IF address.pins # << >> THEN address.pins[Len(address.pins)]
    ELSE None

\* str(n) for a natural number, as a sequence of digits
RECURSIVE Digits(_)
Digits(n) == IF n < 10 THEN << n >> ELSE Append(Digits(n \div 10), n % 10)

\* lines 532-535: str(int(float(pincode))) if pd.notna(pincode) else ''
pincode_to_str(pincode) == IF pincode.nan THEN None ELSE Digits(pincode.val)

\* the first two characters of s
Prefix2(s) == SubSeq(s, 1, Min(2, Len(s)))

\* s[:3]
Prefix3(s) == SubSeq(s, 1, Min(3, Len(s)))

\* truthiness of a coordinate: None and 0.0 are falsy
Truthy(x) == x = "val"

\* lines 514-524
NullResult ==
    [ refined_lat |-> None, refined_long |-> None, Address |-> None,
      Distance_Meters |-> None, Found_Pincode |-> None, Found_Restaurant_Name |-> None ]

\* the distance test of line 584 with an exact name match exempted from it
TooFar_unless_exact_name(distance, name_check) ==
    distance > 10000 /\ name_check.score # Frac(1, 1)

\* line 584: CHECK 2
TooFar(distance, name_check) == distance > 10000

\* the test of line 611 extended by a gate on the name match
StateRejects_or_name(found_address, state_clean, name_check) ==
    ~validate_state_match(found_address, state_clean) \/ ~name_check.is_match

\* line 611: CHECK 5
StateRejects(found_address, state_clean, name_check) ==
    ~validate_state_match(found_address, state_clean)

\* lines 561-628: what one loop iteration does with the place a search returned;
\* checks lists the checks evaluated for the candidate, in the order evaluated
ValidatePlace(place, expected) ==
    LET found_address == place.address
        found_name == place.name
        provider_name_clean == strip(expected.provider_name)
        pincode_str == pincode_to_str(expected.pincode)
        distance == place.distance     \* haversine_distance(network, found), in metres
        found_pincode == extract_pincode_from_address(found_address)
        name_check == validate_restaurant_name(found_name, provider_name_clean, << 1, 2 >>)
        base == [ place |-> place, score |-> name_check.score, verdict |-> "incomplete",
                  checks |-> << >> ]
    IN  IF ~(Truthy(place.lat) /\ Truthy(place.lon) /\ found_address.present)
        THEN base
        ELSE IF TooFar(distance, name_check)
        THEN [ base EXCEPT !.verdict = "distance", !.checks = << "name", "distance" >> ]
        ELSE IF found_pincode # None /\ pincode_str # None
                /\ found_pincode # pincode_str
                /\ Prefix3(found_pincode) # Prefix3(pincode_str)
        THEN [ base EXCEPT !.verdict = "pincode",
                           !.checks = << "name", "distance", "pincode" >> ]
        ELSE IF ~validate_city_match(found_address, expected.city)
        THEN [ base EXCEPT !.verdict = "city",
                           !.checks = << "name", "distance", "pincode", "city" >> ]
        ELSE IF StateRejects(found_address, expected.state, name_check)
        THEN [ base EXCEPT !.verdict = "state",
                           !.checks = << "name", "distance", "pincode", "city", "state" >> ]
        ELSE [ base EXCEPT !.verdict = "accept",
                           !.checks = << "name", "distance", "pincode", "city", "state" >> ]

\* lines 617-625
FilledResult(place) ==
    [ refined_lat |-> << place.lat >>, refined_long |-> << place.lon >>,
      Address |-> << place.address >>, Distance_Meters |-> << place.distance >>,
      Found_Pincode |-> extract_pincode_from_address(place.address),
      Found_Restaurant_Name |-> place.name ]

\* ------------------------------------------------------------------------
\* geocode_restaurant_strict: inputs of the model
\* ------------------------------------------------------------------------
Pin411001 == << 4, 1, 1, 0, 0, 1 >>
Pin411045 == << 4, 1, 1, 0, 4, 5 >>
Pin400001 == << 4, 0, 0, 0, 0, 1 >>

NoAddress == [ present |-> FALSE, contains |-> {}, pins |-> << >> ]

Addresses ==
    { [ present |-> TRUE, contains |-> c, pins |-> p ] :
        c \in { { "pune", "maharashtra" }, { "poona", "maharashtra" }, { "pune" },
                { "maharashtra", "mumbai" } },
        p \in { << >>, << Pin411001 >>, << Pin411045 >>, << Pin400001, Pin411001 >>,
                << Pin400001 >> } }

FoundNames == { << "A", "b" >>, << "c" >>, << >>, << "a", "b", " ", "a" >> }

Distances == { 50, 10000, 10001 }

\* the places search_place_strict can return
Places ==
    { [ lat |-> "val", lon |-> "val", distance |-> d, address |-> a, name |-> n ] :
        d \in Distances, a \in Addresses, n \in FoundNames }
    \cup
    { [ lat |-> l, lon |-> "val", distance |-> 50, address |-> a, name |-> << "c" >> ] :
        l \in { "none", "zero" }, a \in { [ present |-> TRUE, contains |-> { "pune", "maharashtra" }, pins |-> << Pin411001 >> ] } }
    \cup
    { [ lat |-> "val", lon |-> "val", distance |-> 50, address |-> NoAddress,
        name |-> << "A", "b" >> ] }

NoPlace ==
    [ lat |-> "none", lon |-> "none", distance |-> 0, address |-> NoAddress, name |-> << >> ]

Expecteds ==
    [ provider_name : { << "a", "b", " " >> },
      city : { "Pune", " Mumbai" },
      state : { "Maharashtra" },
      pincode : { [ nan |-> TRUE, val |-> 0 ], [ nan |-> FALSE, val |-> 411001 ],
                  [ nan |-> FALSE, val |-> 41 ] } ]

NoLast == [ place |-> NoPlace, score |-> Frac(0, 1), verdict |-> "none", checks |-> << >> ]

\* str.strip() on the city and state strings of the model
StripName(s) == IF s = " Mumbai" THEN "Mumbai" ELSE s

\* lines 526-545: search_queries; a query is the list of the parts the
\* f-string joins with ", "
search_queries(expected) ==
    LET provider_name_clean == strip(expected.provider_name)
        city_clean == StripName(expected.city)
        state_clean == StripName(expected.state)
    IN  << << provider_name_clean >>,
           << provider_name_clean, city_clean >>,
           << provider_name_clean, city_clean, state_clean >> >>

\* the query of the running loop iteration with what the iteration ended in:
\* no place (line 558), a candidate left by a continue of lines 568-612
\* ("rejected"), the return of line 628 or the handler of line 630
SentAs(verdict) ==
    Append(g_sent, [ query |-> search_queries(g_expected)[g_q],
                     verdict |-> IF verdict \in { "no_place", "accept", "error" }
                                   THEN verdict ELSE "rejected" ])

\* ------------------------------------------------------------------------
\* geocode_restaurant_strict: actions
\* ------------------------------------------------------------------------
\* lines 549-559: search_place_strict returned None for this formulation
QueryNoPlace ==
    /\ g_pc = "query"
    /\ g_q <= 3
    /\ g_calls' = g_calls + 1
    /\ g_last' = [ NoLast EXCEPT !.verdict = "no_place" ]
    /\ g_q' = g_q + 1
    /\ g_trace' = Append(g_trace, "call")
    /\ g_sent' = SentAs("no_place")
    /\ UNCHANGED << g_expected, g_pc, g_result >>
    /\ UNCHANGED nonStrictVars

\* the loop iteration with the result fields assigned before the checks
QueryPlace_assign_early ==
    /\ g_pc = "query"
    /\ g_q <= 3
    /\ \E place \in Places :
         LET v == ValidatePlace(place, g_expected) IN
           /\ g_last' = v
           /\ g_sent' = SentAs(v.verdict)
           /\ g_result' = FilledResult(place)
           /\ IF v.verdict = "accept"
                THEN g_pc' = "returned" /\ g_q' = g_q
                ELSE g_pc' = g_pc /\ g_q' = g_q + 1
    /\ g_calls' = g_calls + 1
    /\ g_trace' = Append(g_trace, "call")
    /\ UNCHANGED g_expected
    /\ UNCHANGED nonStrictVars

\* the loop iteration without the return of line 628: the loop goes on to the
\* next formulation after an accepted candidate
QueryPlace_no_return ==
    /\ g_pc = "query"
    /\ g_q <= 3
    /\ \E place \in Places :
         LET v == ValidatePlace(place, g_expected) IN
           /\ g_last' = v
           /\ g_sent' = SentAs(v.verdict)
           /\ g_result' = IF v.verdict = "accept" THEN FilledResult(place) ELSE g_result
    /\ g_pc' = g_pc
    /\ g_q' = g_q + 1
    /\ g_calls' = g_calls + 1
    /\ g_trace' = Append(g_trace, "call")
    /\ UNCHANGED g_expected
    /\ UNCHANGED nonStrictVars

\* lines 549-628: search_place_strict returned a place, which is validated
QueryPlace ==
    /\ g_pc = "query"
    /\ g_q <= 3
    /\ \E place \in Places :
         LET v == ValidatePlace(place, g_expected) IN
           /\ g_last' = v
           /\ g_sent' = SentAs(v.verdict)
           /\ IF v.verdict = "accept"
                THEN /\ g_result' = FilledResult(place)
                     /\ g_pc' = "returned"
                     /\ g_q' = g_q
                ELSE /\ g_result' = g_result
                     /\ g_pc' = g_pc
                     /\ g_q' = g_q + 1
    /\ g_calls' = g_calls + 1
    /\ g_trace' = Append(g_trace, "call")
    /\ UNCHANGED g_expected
    /\ UNCHANGED nonStrictVars

\* lines 630-635: the body of the try raised after the search returned (a place
\* whose location or displayName is not of the expected type); the handler
\* sleeps 0.5 s and the loop body ends with the sleep of line 635
QueryRaises ==
    /\ g_pc = "query"
    /\ g_q <= 3
    /\ g_calls' = g_calls + 1
    /\ g_last' = [ NoLast EXCEPT !.verdict = "error" ]
    /\ g_q' = g_q + 1
    /\ g_trace' = g_trace \o << "call", "sleep", "sleep" >>
    /\ g_sent' = SentAs("error")
    /\ UNCHANGED << g_expected, g_pc, g_result >>
    /\ UNCHANGED nonStrictVars

\* lines 637-639: every formulation was tried
NoMatch ==
    /\ g_pc = "query"
    /\ g_q > 3
    /\ g_pc' = "returned"
    /\ UNCHANGED << g_expected, g_q, g_calls, g_last, g_result, g_trace, g_sent >>
    /\ UNCHANGED nonStrictVars

\* geocode_restaurant_strict is entered with its arguments
StrictInit ==
    /\ g_expected \in Expecteds
    /\ g_pc = "query"
    /\ g_q = 1
    /\ g_calls = 0
    /\ g_last = NoLast
    /\ g_result = NullResult
    /\ g_trace = << >>
    /\ g_sent = << >>

StrictIdle ==
    /\ g_expected = << >>
    /\ g_pc = "idle"
    /\ g_q = 1
    /\ g_calls = 0
    /\ g_last = << >>
    /\ g_result = << >>
    /\ g_trace = << >>
    /\ g_sent = << >>

\* ------------------------------------------------------------------------
\* process_restaurants and main (src/geocode-new.py)
\* ------------------------------------------------------------------------
\* the rows an input workbook can hold: coords = valid network coordinates,
\* data = name, city and state present, found = refined_lat and
\* Found_Restaurant_Name already populated
RowKinds ==
    { [ coords |-> TRUE, data |-> TRUE, found |-> FALSE ],
      [ coords |-> TRUE, data |-> TRUE, found |-> TRUE ],
      [ coords |-> FALSE, data |-> TRUE, found |-> FALSE ],
      [ coords |-> TRUE, data |-> FALSE, found |-> FALSE ],
      [ coords |-> FALSE, data |-> TRUE, found |-> TRUE ] }

ZeroCounts ==
    [ processed |-> 0, successful |-> 0, failed |-> 0, skipped_no_coords |-> 0,
      skipped_already_done |-> 0 ]

\* lines 676-748: read the workbook, count, return early when nothing is needed
R_Load ==
    /\ r_pc = "start"
    /\ r_df' = [ r \in Rows |-> IF r_input[r].found THEN "in" ELSE "nan" ]
    /\ LET valid_coords_count == Cardinality({ r \in Rows : r_input[r].coords })
           already_processed == Cardinality({ r \in Rows : r_input[r].found })
           needs_processing == valid_coords_count - already_processed
       IN  IF needs_processing = 0
             THEN r_pc' = "returned" /\ r_idx' = r_idx
             ELSE r_pc' = "loop" /\ r_idx' = r_start_row
    /\ UNCHANGED << r_input, r_start_row, r_out, r_result, r_cnt, r_pending, r_writes,
                    r_sig_writes >>
    /\ UNCHANGED nonRestVars

\* lines 761-764
R_SkipDone ==
    /\ r_pc = "loop"
    /\ r_idx < NumRows
    /\ r_df[r_idx] # "nan"
    /\ r_cnt' = [ r_cnt EXCEPT !.skipped_already_done = @ + 1, !.processed = @ + 1 ]
    /\ r_idx' = r_idx + 1
    /\ UNCHANGED << r_input, r_start_row, r_df, r_out, r_pc, r_result, r_pending, r_writes,
                    r_sig_writes >>
    /\ UNCHANGED nonRestVars

\* lines 775-788: no valid coordinates, or name, city or state missing
R_SkipNoData ==
    /\ r_pc = "loop"
    /\ r_idx < NumRows
    /\ r_df[r_idx] = "nan"
    /\ ~r_input[r_idx].coords \/ ~r_input[r_idx].data
    /\ r_cnt' = [ r_cnt EXCEPT !.skipped_no_coords = @ + 1, !.processed = @ + 1 ]
    /\ r_idx' = r_idx + 1
    /\ UNCHANGED << r_input, r_start_row, r_df, r_out, r_pc, r_result, r_pending, r_writes,
                    r_sig_writes >>
    /\ UNCHANGED nonRestVars

\* lines 795-799: geocode_restaurant_strict is called
R_StartGeocode ==
    /\ r_pc = "loop"
    /\ r_idx < NumRows
    /\ r_df[r_idx] = "nan"
    /\ r_input[r_idx].coords /\ r_input[r_idx].data
    /\ r_pc' = "geocode"
    /\ UNCHANGED << r_input, r_start_row, r_df, r_out, r_idx, r_result, r_cnt, r_pending,
                    r_writes, r_sig_writes >>
    /\ UNCHANGED nonRestVars

\* the call returns a filled result, the all-null result, or raises
R_GeocodeReturn ==
    /\ r_pc = "geocode"
    /\ \E res \in { "filled", "null", "raise" } : r_result' = res
    /\ r_pc' = "merge"
    /\ UNCHANGED << r_input, r_start_row, r_df, r_out, r_idx, r_cnt, r_pending, r_writes,
                    r_sig_writes >>
    /\ UNCHANGED nonRestVars

\* lines 801-819
R_Merge ==
    /\ r_pc = "merge"
    /\ IF r_result = "filled"
         THEN /\ r_df' = [ r_df EXCEPT ![r_idx] = "geo" ]
              /\ r_cnt' = [ r_cnt EXCEPT !.successful = @ + 1 ]
         ELSE /\ r_df' = r_df
              /\ r_cnt' = [ r_cnt EXCEPT !.failed = @ + 1 ]
    /\ r_pending' = r_pending \cup { r_idx }
    /\ r_pc' = "count"
    /\ UNCHANGED << r_input, r_start_row, r_out, r_idx, r_result, r_writes, r_sig_writes >>
    /\ UNCHANGED nonRestVars

\* lines 821-837
R_Count ==
    /\ r_pc = "count"
    /\ r_cnt' = [ r_cnt EXCEPT !.processed = @ + 1 ]
    /\ IF (r_cnt.processed + 1) % save_interval = 0
         THEN r_pc' = "autosave" /\ r_idx' = r_idx
         ELSE r_pc' = "loop" /\ r_idx' = r_idx + 1
    /\ UNCHANGED << r_input, r_start_row, r_df, r_out, r_result, r_pending, r_writes,
                    r_sig_writes >>
    /\ UNCHANGED nonRestVars

\* lines 838-843
R_AutoSave ==
    /\ r_pc = "autosave"
    /\ r_out' = [ st |-> "written", rows |-> r_df ]
    /\ r_writes' = r_writes + 1
    /\ r_pending' = {}
    /\ r_pc' = "loop"
    /\ r_idx' = r_idx + 1
    /\ UNCHANGED << r_input, r_start_row, r_df, r_result, r_cnt, r_sig_writes >>
    /\ UNCHANGED nonRestVars

\* lines 845-866: the loop is exhausted, final save and statistics
R_FinalSave ==
    /\ r_pc = "loop"
    /\ r_idx >= NumRows
    /\ r_out' = [ st |-> "written", rows |-> r_df ]
    /\ r_writes' = r_writes + 1
    /\ r_pending' = {}
    /\ r_pc' = "done"
    /\ UNCHANGED << r_input, r_start_row, r_df, r_idx, r_result, r_cnt, r_sig_writes >>
    /\ UNCHANGED nonRestVars

\* main, lines 914-917: KeyboardInterrupt raised anywhere in process_restaurants
R_Interrupt ==
    /\ r_pc \in { "start", "loop", "geocode", "merge", "count", "autosave" }
    /\ r_sig_writes' = r_writes
    /\ r_pc' = "interrupted"
    /\ UNCHANGED << r_input, r_start_row, r_df, r_out, r_idx, r_result, r_cnt, r_pending,
                    r_writes >>
    /\ UNCHANGED nonRestVars

\* main calls process_restaurants(input_file, output_file, api_key, start_row=start_row)
RestInit ==
    /\ r_input \in [ Rows -> RowKinds ]
    /\ r_start_row \in { 0, 1 }
    /\ r_df = [ r \in Rows |-> "nan" ]
    /\ r_out = NoOutput
    /\ r_pc = "start"
    /\ r_idx = 0
    /\ r_result = "null"
    /\ r_cnt = ZeroCounts
    /\ r_pending = {}
    /\ r_writes = 0
    /\ r_sig_writes = -1

RestIdle ==
    /\ r_input = << >>
    /\ r_start_row = 0
    /\ r_df = << >>
    /\ r_out = << >>
    /\ r_pc = "idle"
    /\ r_idx = 0
    /\ r_result = "null"
    /\ r_cnt = << >>
    /\ r_pending = {}
    /\ r_writes = 0
    /\ r_sig_writes = -1

\* ------------------------------------------------------------------------
\* HistoricalTrafficModel (src/optimized_geo_generator.py)
\* Factors are exact fractions << n, d >> in lowest terms standing for the
\* code's floats; the tables hold hundredths.
\* ------------------------------------------------------------------------
\* x * y on fractions, reduced crosswise before multiplying
FracMul(x, y) ==
    IF x[1] = 0 \/ y[1] = 0 THEN << 0, 1 >>
    ELSE LET g1 == GCD(x[1], y[2])
             g2 == GCD(y[1], x[2])
         IN  << (x[1] \div g1) * (y[1] \div g2), (x[2] \div g2) * (y[2] \div g1) >>

\* x + y on fractions, over the least common denominator
FracAdd(x, y) ==
    LET g == GCD(x[2], y[2])
        l == (x[2] \div g) * y[2]
    IN  Frac(x[1] * (l \div x[2]) + y[1] * (l \div y[2]), l)

\* 1 - x
OneMinus(x) == Frac(x[2] - x[1], x[2])

\* x > y on fractions
FracGT(x, y) == x[1] * y[2] > y[1] * x[2]

\* max(lo, min(hi, x))
Clamp(lo, hi, x) == ScoreMax(lo, IF ScoreGE(hi, x) THEN x ELSE hi)

\* round(x, ndigits) as the set of values round can return for x * scale with
\* scale = 10^ndigits: the nearest integer, and both neighbours when x lies
\* exactly halfway, where the last bit of the float decides
RoundScaled(x, scale) ==
    LET g == GCD(scale, x[2])
        num == x[1] * (scale \div g)
        den == x[2] \div g
        q == num \div den
        r == num % den
    IN  IF 2 * r > den THEN { q + 1 }
        ELSE IF 2 * r < den THEN { q }
        ELSE { q, q + 1 }

\* dict.get(k, dflt)
Get(f, k, dflt) == IF k \in DOMAIN f THEN f[k] ELSE dflt

\* lines 56-84, in hundredths
CITY_BASE_FACTORS ==
    ( "mumbai" :> 45 @@ "bangalore" :> 50 @@ "delhi" :> 52 @@ "ncr" :> 52 @@ "gurgaon" :> 48
      @@ "noida" :> 55 @@ "pune" :> 58 @@ "hyderabad" :> 60 @@ "chennai" :> 58
      @@ "kolkata" :> 55 @@ "ahmedabad" :> 65 @@ "jaipur" :> 68 @@ "lucknow" :> 70
      @@ "kochi" :> 70 @@ "coimbatore" :> 72 @@ "indore" :> 72 @@ "nagpur" :> 73
      @@ "surat" :> 70 @@ "visakhapatnam" :> 72 @@ "bhopal" :> 73 @@ "tier3" :> 80
      @@ "default" :> 75 )

\* lines 89-114, in hundredths
HOURLY_FACTORS ==
    ( 0 :> 95 @@ 1 :> 98 @@ 2 :> 99 @@ 3 :> 99 @@ 4 :> 98 @@ 5 :> 90 @@ 6 :> 80 @@ 7 :> 60
      @@ 8 :> 50 @@ 9 :> 55 @@ 10 :> 70 @@ 11 :> 75 @@ 12 :> 70 @@ 13 :> 75 @@ 14 :> 80
      @@ 15 :> 75 @@ 16 :> 70 @@ 17 :> 60 @@ 18 :> 50 @@ 19 :> 55 @@ 20 :> 60 @@ 21 :> 70
      @@ 22 :> 80 @@ 23 :> 90 )

\* lines 117-125, in hundredths
DAY_FACTORS ==
    ( 0 :> 95 @@ 1 :> 93 @@ 2 :> 92 @@ 3 :> 93 @@ 4 :> 90 @@ 5 :> 100 @@ 6 :> 105 )

\* lines 128-133, in hundredths
SEASON_FACTORS ==
    ( "monsoon" :> 75 @@ "winter" :> 95 @@ "summer" :> 90 @@ "festival" :> 65 )

\* lines 136-143, in hundredths
AREA_TYPE_FACTORS ==
    ( "cbd" :> 55 @@ "commercial" :> 65 @@ "residential" :> 80 @@ "industrial" :> 75
      @@ "suburban" :> 85 @@ "rural" :> 95 )

\* lines 146-153: the pincodes of the keys holding 'cbd' and of those holding 'commercial'
PINCODE_PATTERNS ==
    [ cbd |-> { 560001, 560002, 560009, 110001, 110002, 110003, 400001, 400021, 400051,
                600001, 600002 },
      commercial |-> { 560100, 560103, 560038 } ]

\* lines 198-217
PINCODE_CITY_MAP ==
    ( 110 :> "delhi" @@ 111 :> "delhi" @@ 112 :> "ncr" @@ 121 :> "gurgaon" @@ 122 :> "gurgaon"
      @@ 201 :> "noida" @@ 202 :> "noida" @@ 400 :> "mumbai" @@ 401 :> "mumbai"
      @@ 421 :> "mumbai" @@ 422 :> "mumbai" @@ 560 :> "bangalore" @@ 562 :> "bangalore"
      @@ 600 :> "chennai" @@ 601 :> "chennai" @@ 500 :> "hyderabad" @@ 501 :> "hyderabad"
      @@ 411 :> "pune" @@ 412 :> "pune" @@ 380 :> "ahmedabad" @@ 700 :> "kolkata"
      @@ 711 :> "kolkata" @@ 302 :> "jaipur" @@ 682 :> "kochi" @@ 641 :> "coimbatore"
      @@ 226 :> "lucknow" @@ 452 :> "indore" @@ 440 :> "nagpur" @@ 395 :> "surat"
      @@ 530 :> "visakhapatnam" @@ 462 :> "bhopal" )

\* int(str(n)[:3]) for a pincode of at least three digits
RECURSIVE FirstThree(_)
FirstThree(n) == IF n < 1000 THEN n ELSE FirstThree(n \div 10)

\* lines 190-219
detect_city_from_pincode(pincode) ==
    IF Len(Digits(pincode)) < 3 THEN "default"
    ELSE Get(PINCODE_CITY_MAP, FirstThree(pincode), "default")

\* lines 221-249
detect_area_type(pincode) ==
    IF pincode \in PINCODE_PATTERNS.cbd THEN "cbd"
    ELSE IF pincode \in PINCODE_PATTERNS.commercial THEN "commercial"
    ELSE LET city == detect_city_from_pincode(pincode) IN
         IF city \in { "mumbai", "delhi", "bangalore", "chennai", "kolkata" }
         THEN LET city_base == FirstThree(pincode) * 1000 IN
              IF pincode < city_base + 20 THEN "commercial"
              ELSE IF pincode < city_base + 50 THEN "residential"
              ELSE "suburban"
         ELSE "residential"

\* lines 251-264
get_current_season(month) ==
    IF month \in { 6, 7, 8, 9 } THEN "monsoon"
    ELSE IF month \in { 10, 11, 12, 1, 2 } THEN "winter"
    ELSE "summer"

\* no entry of learned_patterns under the key (str(pincode), hour, day_of_week)
NoPattern == [ present |-> FALSE, speed_kmh |-> 0, confidence |-> << 0, 1 >> ]

\* lines 297-321: the factor of the default patterns, clamped
default_factor(pincode, hour, day_of_week, month) ==
    LET city == detect_city_from_pincode(pincode)
        area_type == detect_area_type(pincode)
        season == get_current_season(month)
        city_factor == Frac(Get(CITY_BASE_FACTORS, city, CITY_BASE_FACTORS["default"]), 100)
        hour_factor == Frac(Get(HOURLY_FACTORS, hour, 100), 100)
        day_factor == Frac(Get(DAY_FACTORS, day_of_week, 100), 100)
        area_factor == Frac(Get(AREA_TYPE_FACTORS, area_type, 80), 100)
        season_factor == Frac(Get(SEASON_FACTORS, season, 100), 100)
    IN  Clamp(<< 3, 10 >>, << 1, 1 >>,
              FracMul(FracMul(FracMul(FracMul(city_factor, hour_factor), day_factor),
                              area_factor), season_factor))

\* calculate_traffic_factor with the test of line 290 as confidence >= 0.7
calculate_traffic_factor_ge(pincode, hour, day_of_week, month, learned) ==
    LET confidence == IF learned.present THEN learned.confidence ELSE << 0, 1 >>
        learned_factor ==
            IF learned.present
            THEN Clamp(<< 3, 10 >>, << 1, 1 >>, Frac(learned.speed_kmh, 30))
            ELSE << 0, 1 >>
        dflt == default_factor(pincode, hour, day_of_week, month)
    IN  IF learned.present /\ ScoreGE(confidence, << 7, 10 >>) THEN learned_factor
        ELSE IF FracGT(confidence, << 0, 1 >>)
             THEN FracAdd(FracMul(learned_factor, confidence),
                          FracMul(dflt, OneMinus(confidence)))
             ELSE dflt

\* lines 266-329
calculate_traffic_factor(pincode, hour, day_of_week, month, learned) ==
    LET confidence == IF learned.present THEN learned.confidence ELSE << 0, 1 >>
        learned_factor ==
            IF learned.present
            THEN Clamp(<< 3, 10 >>, << 1, 1 >>, Frac(learned.speed_kmh, 30))
            ELSE << 0, 1 >>
        dflt == default_factor(pincode, hour, day_of_week, month)
    IN  IF learned.present /\ FracGT(confidence, << 7, 10 >>) THEN learned_factor
        ELSE IF FracGT(confidence, << 0, 1 >>)
             THEN FracAdd(FracMul(learned_factor, confidence),
                          FracMul(dflt, OneMinus(confidence)))
             ELSE dflt

\* lines 331-349: the values round(distance_km * traffic_factor, 2) can take, in
\* hundredths of a km
adjust_distance_for_traffic(distance_km, pincode, hour, day_of_week, month, learned) ==
    RoundScaled(FracMul(<< distance_km, 1 >>,
                        calculate_traffic_factor(pincode, hour, day_of_week, month, learned)),
                100)

\* line 407: the list of day names
DayNames ==
    << "Monday", "Tuesday", "Wednesday", "Thursday", "Friday", "Saturday", "Sunday" >>

\* list[i]: a negative index counts from the end, any other index outside the
\* list raises IndexError
ListIndex(list, i) ==
    IF 0 <= i /\ i < Len(list) THEN [ raised |-> "", value |-> list[i + 1] ]
    ELSE IF 0 - Len(list) <= i /\ i < 0
         THEN [ raised |-> "", value |-> list[Len(list) + i + 1] ]
         ELSE [ raised |-> "IndexError", value |-> "" ]

\* the value a call that raised did not return
NoMeta ==
    [ raised |-> "IndexError", city |-> "", area_type |-> "", season |-> "",
      traffic_factor |-> 0, traffic_condition |-> "", speed_reduction_percent |-> 0,
      day_of_week |-> "", hour |-> 0, has_learned_data |-> FALSE ]

\* lines 374-410: the dictionaries the call can return, or NoMeta when it raises;
\* traffic_factor in thousandths, speed_reduction_percent in tenths
get_traffic_metadata(pincode, hour, day_of_week, month, learned) ==
    LET traffic_factor == calculate_traffic_factor(pincode, hour, day_of_week, month, learned)
        condition == IF ScoreGE(traffic_factor, << 85, 100 >>) THEN "Light"
                     ELSE IF ScoreGE(traffic_factor, << 70, 100 >>) THEN "Moderate"
                     ELSE IF ScoreGE(traffic_factor, << 55, 100 >>) THEN "Heavy"
                     ELSE "Very Heavy"
        day_name == ListIndex(DayNames, day_of_week)
    IN  IF day_name.raised # "" THEN { NoMeta }
        ELSE { [ raised |-> "",
                 city |-> detect_city_from_pincode(pincode),
                 area_type |-> detect_area_type(pincode),
                 season |-> get_current_season(month),
                 traffic_factor |-> tf,
                 traffic_condition |-> condition,
                 speed_reduction_percent |-> srp,
                 day_of_week |-> day_name.value,
                 hour |-> hour,
                 has_learned_data |-> learned.present ] :
                 tf \in RoundScaled(traffic_factor, 1000),
                 srp \in RoundScaled(OneMinus(traffic_factor), 1000) }

\* ---- inputs of the model ----
TPincodes == { 400001, 400030, 560100, 411001, 641001, 999999, 41 }

THours == { 8, 3, 24, -1 }

TDays == { 0, 6, 7, -1 }

TMonths == { 7, 12, 4 }

\* entries written by _load_learning_data (confidence min(count / 10, 1.0)) and
\* entries brought in by import_model
TPatterns ==
    { NoPattern } \cup
    [ present : { TRUE }, speed_kmh : { 3, 21, 45 },
      confidence : { << 0, 1 >>, << 3, 10 >>, << 7, 10 >>, << 4, 5 >>, << 3, 2 >> } ]

TDistances == { 3, 5 }

NoOut ==
    [ op |-> "none", raised |-> "", factor |-> << 0, 1 >>, requested |-> 0, adjusted |-> 0,
      meta |-> NoMeta ]

\* ---- actions: one method of the model is applied to the arguments ----
T_calculate_traffic_factor ==
    /\ t_pc = "call"
    /\ t_pc' = "done"
    /\ t_out' = [ NoOut EXCEPT !.op = "calculate_traffic_factor",
                    !.factor = calculate_traffic_factor(t_pincode, t_hour, t_day_of_week,
                                                        t_month, t_learned) ]
    /\ UNCHANGED << t_pincode, t_hour, t_day_of_week, t_month, t_learned >>
    /\ UNCHANGED nonTrafficVars

T_adjust_distance_for_traffic ==
    /\ t_pc = "call"
    /\ t_pc' = "done"
    /\ \E distance_km \in TDistances :
         \E adjusted \in adjust_distance_for_traffic(distance_km, t_pincode, t_hour,
                                                      t_day_of_week, t_month, t_learned) :
           t_out' = [ NoOut EXCEPT !.op = "adjust_distance_for_traffic",
                        !.factor = calculate_traffic_factor(t_pincode, t_hour, t_day_of_week,
                                                            t_month, t_learned),
                        !.requested = distance_km,
                        !.adjusted = adjusted ]
    /\ UNCHANGED << t_pincode, t_hour, t_day_of_week, t_month, t_learned >>
    /\ UNCHANGED nonTrafficVars

T_get_traffic_metadata ==
    /\ t_pc = "call"
    /\ t_pc' = "done"
    /\ \E meta \in get_traffic_metadata(t_pincode, t_hour, t_day_of_week, t_month, t_learned) :
         t_out' = [ NoOut EXCEPT !.op = "get_traffic_metadata",
                      !.raised = meta.raised,
                      !.factor = calculate_traffic_factor(t_pincode, t_hour, t_day_of_week,
                                                          t_month, t_learned),
                      !.meta = meta ]
    /\ UNCHANGED << t_pincode, t_hour, t_day_of_week, t_month, t_learned >>
    /\ UNCHANGED nonTrafficVars

TrafficInit ==
    /\ t_pincode \in TPincodes
    /\ t_hour \in THours
    /\ t_day_of_week \in TDays
    /\ t_month \in TMonths
    /\ t_learned \in TPatterns
    /\ t_pc = "call"
    /\ t_out = NoOut

TrafficIdle ==
    /\ t_pincode = 0
    /\ t_hour = 0
    /\ t_day_of_week = 0
    /\ t_month = 1
    /\ t_learned = << >>
    /\ t_pc = "idle"
    /\ t_out = << >>

\* ------------------------------------------------------------------------
\* Zone generation: generate_all_zones_for_provider and process_single_provider
\* of src/optimized_geo_generator.py (z_impl = "optimized") and of
\* src/geoJson_generator.py (z_impl = "plain"). One action is one band request,
\* from building its payload to the client's return after its retries.
\* Distances sent are in hundredths of a km, durations in minutes.
\* ------------------------------------------------------------------------
\* optimized_geo_generator.py:462-471, geoJson_generator.py:40-48
VALHALLA_MODES ==
    [ optimized |->
        ( "walk" :> "pedestrian" @@ "walking" :> "pedestrian" @@ "pedestrian" :> "pedestrian"
          @@ "bike" :> "bicycle" @@ "bicycle" :> "bicycle" @@ "motorcycle" :> "motorcycle"
          @@ "car" :> "auto" @@ "auto" :> "auto" ),
      plain |->
        ( "walk" :> "pedestrian" @@ "walking" :> "pedestrian" @@ "bike" :> "bicycle"
          @@ "bicycle" :> "bicycle" @@ "motorcycle" :> "motorcycle" @@ "car" :> "auto"
          @@ "auto" :> "auto" ) ]

\* optimized_geo_generator.py:472: VALHALLA_MODES.get(mode.lower(), 'motorcycle')
_valhalla_costing_from_mode(mode) == Get(VALHALLA_MODES.optimized, mode, "motorcycle")

\* geoJson_generator.py:54: VALHALLA_MODES[mode.lower()], KeyError for a mode not in it
costing_plain(mode) ==
    IF mode \in DOMAIN VALHALLA_MODES.plain
    THEN [ raised |-> "", value |-> VALHALLA_MODES.plain[mode] ]
    ELSE [ raised |-> "KeyError", value |-> "" ]

\* the band requests of a task in the order the loops issue them
Bands(task, impl) ==
    [ i \in 1 .. Len(task.distances_km) |->
        [ kind |-> "distance", requested |-> task.distances_km[i] ] ]
    \o (IF impl = "optimized"
        THEN [ i \in 1 .. Len(task.times_minutes) |->
                 [ kind |-> "time", requested |-> task.times_minutes[i] ] ]
        ELSE << >>)

\* a key the feature's properties do not hold
Absent == -1

\* optimized_geo_generator.py:534-541 and 676-680: the properties of a distance feature
DistanceFeature(requested, adjusted, meta) ==
    [ zone_type |-> "distance", label |-> requested, traffic_aware |-> TRUE,
      requested_distance_km |-> requested, adjusted_distance_km |-> adjusted,
      time_minutes |-> Absent, distance_km |-> Absent, meta |-> meta ]

\* optimized_geo_generator.py:612-618 and 697-701: the properties of a time feature
TimeFeature(time_minutes, meta) ==
    [ zone_type |-> "time", label |-> time_minutes, traffic_aware |-> FALSE,
      requested_distance_km |-> Absent, adjusted_distance_km |-> Absent,
      time_minutes |-> time_minutes, distance_km |-> Absent, meta |-> meta ]

\* geoJson_generator.py:94-102: the properties of a feature of the plain generator
PlainFeature(distance) ==
    [ zone_type |-> "distance", label |-> distance, traffic_aware |-> FALSE,
      requested_distance_km |-> Absent, adjusted_distance_km |-> Absent,
      time_minutes |-> Absent, distance_km |-> distance, meta |-> NoMeta ]

\* what a band request can end in: the client returned a document with one
\* feature, a document with an empty feature list, or None after its retries
BandOutcomes == { "ok", "empty", "failed" }

\* process_single_provider has not returned
NoResult == [ status |-> "none", filepath |-> None, zones_count |-> 0, error |-> "" ]

\* optimized_geo_generator.py:883-894, geoJson_generator.py:291-302
FailedResult(e) == [ status |-> "failed", filepath |-> None, zones_count |-> 0, error |-> e ]

\* the path of the artifact (generate_filename and output_dir)
ArtifactPath == << "artifact" >>

\* the request of a failed band ends the loop over the bands
Z_DistanceBand_abort ==
    /\ z_pc = "bands"
    /\ Len(z_sent) < Len(Bands(z_task, z_impl))
    /\ Bands(z_task, z_impl)[Len(z_sent) + 1].kind = "distance"
    /\ z_sent' = Append(z_sent, [ kind |-> "distance",
                                  requested |-> Bands(z_task, z_impl)[Len(z_sent) + 1].requested,
                                  value |-> 0 ])
    /\ z_outcomes' = Append(z_outcomes, "failed")
    /\ z_pc' = "combine"
    /\ UNCHANGED << z_impl, z_task, z_features, z_result, z_files >>
    /\ UNCHANGED nonZoneVars

\* optimized_geo_generator.py:670-688 with 474-555, geoJson_generator.py:91-110
\* with 31-72: one distance band
Z_DistanceBand ==
    /\ z_pc = "bands"
    /\ Len(z_sent) < Len(Bands(z_task, z_impl))
    /\ LET band == Bands(z_task, z_impl)[Len(z_sent) + 1] IN
       /\ band.kind = "distance"
       /\ IF z_impl = "optimized"
          THEN \E meta \in get_traffic_metadata(z_task.pincode, z_task.hour, z_task.day_of_week,
                                                 z_task.month, z_task.learned) :
               IF meta.raised # ""
               THEN /\ z_result' = FailedResult(meta.raised)
                    /\ z_pc' = "returned"
                    /\ UNCHANGED << z_sent, z_outcomes, z_features >>
               ELSE \E adjusted \in adjust_distance_for_traffic(band.requested, z_task.pincode,
                                        z_task.hour, z_task.day_of_week, z_task.month,
                                        z_task.learned) :
                    \E outcome \in BandOutcomes :
                      /\ z_sent' = Append(z_sent, [ kind |-> "distance",
                                                    requested |-> band.requested,
                                                    value |-> adjusted ])
                      /\ z_outcomes' = Append(z_outcomes, outcome)
                      /\ z_features' =
                           IF outcome = "ok"
                           THEN Append(z_features,
                                       DistanceFeature(band.requested, adjusted, meta))
                           ELSE z_features
                      /\ UNCHANGED << z_pc, z_result >>
          ELSE IF costing_plain(z_task.mode).raised # ""
               THEN /\ z_result' = FailedResult(costing_plain(z_task.mode).raised)
                    /\ z_pc' = "returned"
                    /\ UNCHANGED << z_sent, z_outcomes, z_features >>
               ELSE \E outcome \in BandOutcomes :
                      /\ z_sent' = Append(z_sent, [ kind |-> "distance",
                                                    requested |-> band.requested,
                                                    value |-> band.requested * 100 ])
                      /\ z_outcomes' = Append(z_outcomes, outcome)
                      /\ z_features' =
                           IF outcome = "ok"
                           THEN Append(z_features, PlainFeature(band.requested))
                           ELSE z_features
                      /\ UNCHANGED << z_pc, z_result >>
    /\ UNCHANGED << z_impl, z_task, z_files >>
    /\ UNCHANGED nonZoneVars

\* the time band with its duration divided by the traffic factor before it is sent
Z_TimeBand_adjusted ==
    /\ z_pc = "bands"
    /\ Len(z_sent) < Len(Bands(z_task, z_impl))
    /\ LET band == Bands(z_task, z_impl)[Len(z_sent) + 1]
           f == calculate_traffic_factor(z_task.pincode, z_task.hour, z_task.day_of_week,
                                         z_task.month, z_task.learned)
       IN
       /\ band.kind = "time"
       /\ \E outcome \in BandOutcomes :
            \E adjusted \in RoundScaled(FracMul(<< band.requested, 1 >>, << f[2], f[1] >>), 1) :
            /\ z_sent' = Append(z_sent, [ kind |-> "time", requested |-> band.requested,
                                          value |-> adjusted ])
            /\ z_outcomes' = Append(z_outcomes, outcome)
            /\ z_features' = IF outcome = "ok"
                             THEN Append(z_features, TimeFeature(band.requested, NoMeta))
                             ELSE z_features
    /\ UNCHANGED << z_impl, z_task, z_pc, z_result, z_files >>
    /\ UNCHANGED nonZoneVars

\* optimized_geo_generator.py:691-708 with 557-631: one time band
Z_TimeBand ==
    /\ z_pc = "bands"
    /\ Len(z_sent) < Len(Bands(z_task, z_impl))
    /\ LET band == Bands(z_task, z_impl)[Len(z_sent) + 1] IN
       /\ band.kind = "time"
       /\ \E meta \in get_traffic_metadata(z_task.pincode, z_task.hour, z_task.day_of_week,
                                           z_task.month, z_task.learned) :
            IF meta.raised # ""
            THEN /\ z_result' = FailedResult(meta.raised)
                 /\ z_pc' = "returned"
                 /\ UNCHANGED << z_sent, z_outcomes, z_features >>
            ELSE \E outcome \in BandOutcomes :
                   /\ z_sent' = Append(z_sent, [ kind |-> "time", requested |-> band.requested,
                                                 value |-> band.requested ])
                   /\ z_outcomes' = Append(z_outcomes, outcome)
                   /\ z_features' =
                        IF outcome = "ok"
                        THEN Append(z_features, TimeFeature(band.requested, meta))
                        ELSE z_features
                   /\ UNCHANGED << z_pc, z_result >>
    /\ UNCHANGED << z_impl, z_task, z_files >>
    /\ UNCHANGED nonZoneVars

\* the loops are over (optimized_geo_generator.py:710, geoJson_generator.py:112)
Z_BandsDone ==
    /\ z_pc = "bands"
    /\ Len(z_sent) = Len(Bands(z_task, z_impl))
    /\ z_pc' = "combine"
    /\ UNCHANGED << z_impl, z_task, z_sent, z_outcomes, z_features, z_result, z_files >>
    /\ UNCHANGED nonZoneVars

\* the document is written whatever it holds
Z_Combine_write_always ==
    /\ z_pc = "combine"
    /\ z_files' = z_files \cup { ArtifactPath }
    /\ z_result' = [ status |-> "success", filepath |-> ArtifactPath,
                     zones_count |-> Len(z_features), error |-> "" ]
    /\ z_pc' = "returned"
    /\ UNCHANGED << z_impl, z_task, z_sent, z_outcomes, z_features >>
    /\ UNCHANGED nonZoneVars

\* optimized_geo_generator.py:711-730 and 852-894, geoJson_generator.py:112-127 and
\* 267-302: the document is combined, tested for features and written
Z_Combine ==
    /\ z_pc = "combine"
    /\ z_pc' = "returned"
    /\ LET metas == IF z_impl = "optimized"
                    THEN get_traffic_metadata(z_task.pincode, z_task.hour, z_task.day_of_week,
                                              z_task.month, z_task.learned)
                    ELSE { [ NoMeta EXCEPT !.raised = "" ] }
       IN  \E meta \in metas :
           IF meta.raised # ""
           THEN z_result' = FailedResult(meta.raised) /\ z_files' = z_files
           ELSE IF z_features = << >>
           THEN z_result' = FailedResult("No zones generated successfully") /\ z_files' = z_files
           ELSE \E written \in BOOLEAN :
                  /\ z_files' = z_files \cup { ArtifactPath }
                  /\ z_result' =
                       IF written
                       THEN [ status |-> "success", filepath |-> ArtifactPath,
                              zones_count |-> Len(z_features), error |-> "" ]
                       ELSE FailedResult("OSError")
    /\ UNCHANGED << z_impl, z_task, z_sent, z_outcomes, z_features >>
    /\ UNCHANGED nonZoneVars

\* ---- inputs of the model ----
ZTasks ==
    [ pincode : { 400001, 999999 },
      hour : { 8, 3 },
      day_of_week : { 0, 7 },
      month : { 12 },
      learned : { NoPattern,
                  [ present |-> TRUE, speed_kmh |-> 21, confidence |-> << 3, 10 >> ] },
      distances_km : { << >>, << 5 >>, << 3, 5 >> },
      times_minutes : { << >>, << 15 >> },
      mode : { "motorcycle", "hover" } ]

ZoneInit ==
    /\ z_impl \in { "optimized", "plain" }
    /\ z_task \in ZTasks
    /\ z_pc = "bands"
    /\ z_sent = << >>
    /\ z_outcomes = << >>
    /\ z_features = << >>
    /\ z_result = NoResult
    /\ z_files = {}

ZoneIdle ==
    /\ z_impl = "optimized"
    /\ z_task = << >>
    /\ z_pc = "idle"
    /\ z_sent = << >>
    /\ z_outcomes = << >>
    /\ z_features = << >>
    /\ z_result = << >>
    /\ z_files = {}

\* ------------------------------------------------------------------------
\* The HTTP clients: search_place_strict (src/geocode-new.py),
\* generate_distance_zone_valhalla (src/geoJson_generator.py) and
\* generate_traffic_aware_distance_zone (src/optimized_geo_generator.py).
\* One action is one attempt: the request, its response and what the loop
\* does with it.
\* ------------------------------------------------------------------------
Clients ==
    { "search_place_strict", "generate_distance_zone_valhalla",
      "generate_traffic_aware_distance_zone" }

\* the statuses of the model; 0 stands for a transport error (timeout,
\* connection error), which requests raises instead of returning a response
ClientErrors == { 400, 403, 404 }

ServerErrors == { 0, 500, 503 }

\* the seconds slept after a failed attempt that is not the last one:
\* geocode-new.py:467-478, geoJson_generator.py:66-68, optimized_geo_generator.py:548-549
RetrySleep(client) == IF client = "search_place_strict" THEN 1 ELSE 2

\* the code before the retry loop: geocode-new.py:413-441 builds the request from
\* its arguments, geoJson_generator.py:52-59 indexes VALHALLA_MODES with the mode,
\* optimized_geo_generator.py:499-518 computes the traffic metadata
C_Enter ==
    /\ c_pc = "enter"
    /\ c_pc' =
         IF c_client = "generate_distance_zone_valhalla" /\ costing_plain(c_args.mode).raised # ""
           THEN "raised"
         ELSE IF c_client = "generate_traffic_aware_distance_zone"
                 /\ ListIndex(DayNames, c_args.day_of_week).raised # ""
           THEN "raised"
         ELSE "attempt"
    /\ c_ret' =
         IF c_client = "generate_distance_zone_valhalla" /\ costing_plain(c_args.mode).raised # ""
           THEN costing_plain(c_args.mode).raised
         ELSE IF c_client = "generate_traffic_aware_distance_zone"
                 /\ ListIndex(DayNames, c_args.day_of_week).raised # ""
           THEN ListIndex(DayNames, c_args.day_of_week).raised
         ELSE c_ret
    /\ UNCHANGED << c_client, c_args, c_attempt, c_log, c_slept >>
    /\ UNCHANGED nonClientVars

\* status 200: geocode-new.py:447-454 returns the first place or None,
\* geoJson_generator.py:63-65 and optimized_geo_generator.py:527-545 return the document
C_Success ==
    /\ c_pc = "attempt"
    /\ c_attempt < c_args.max_retries
    /\ c_log' = Append(c_log, 200)
    /\ \E found \in BOOLEAN :
         c_ret' = IF c_client = "search_place_strict" /\ ~found THEN "None" ELSE "data"
    /\ c_pc' = "returned"
    /\ UNCHANGED << c_client, c_args, c_attempt, c_slept >>
    /\ UNCHANGED nonClientVars

\* what the loop does after a failed attempt that it does not give up on
Retry(status, sleep) ==
    /\ c_log' = Append(c_log, status)
    /\ c_attempt' = c_attempt + 1
    /\ IF c_attempt < c_args.max_retries - 1
         THEN c_slept' = c_slept + sleep /\ c_pc' = c_pc /\ c_ret' = c_ret
         ELSE c_slept' = c_slept /\ c_pc' = "returned" /\ c_ret' = "None"
    /\ UNCHANGED << c_client, c_args >>

\* a 4xx status other than 429: geocode-new.py:459-465 returns None on 400 and
\* treats any other status as an API error to retry; in the two Valhalla clients
\* raise_for_status raises and the except branch retries
C_ClientError ==
    /\ c_pc = "attempt"
    /\ c_attempt < c_args.max_retries
    /\ \E status \in ClientErrors :
         IF c_client = "search_place_strict" /\ status = 400
         THEN /\ c_log' = Append(c_log, status)
              /\ c_pc' = "returned"
              /\ c_ret' = "None"
              /\ UNCHANGED << c_client, c_args, c_attempt, c_slept >>
         ELSE Retry(status, RetrySleep(c_client))
    /\ UNCHANGED nonClientVars

\* status 429: geocode-new.py:456-458 sleeps 2 s after every such attempt, the
\* last included; the Valhalla clients treat it like any other error status
C_RateLimited ==
    /\ c_pc = "attempt"
    /\ c_attempt < c_args.max_retries
    /\ IF c_client = "search_place_strict"
         THEN /\ c_log' = Append(c_log, 429)
              /\ c_attempt' = c_attempt + 1
              /\ c_slept' = c_slept + 2
              /\ IF c_attempt < c_args.max_retries - 1
                   THEN c_pc' = c_pc /\ c_ret' = c_ret
                   ELSE c_pc' = "returned" /\ c_ret' = "None"
              /\ UNCHANGED << c_client, c_args >>
         ELSE Retry(429, RetrySleep(c_client))
    /\ UNCHANGED nonClientVars

\* a 5xx status or a transport error: geocode-new.py:462-478,
\* geoJson_generator.py:66-70, optimized_geo_generator.py:547-553
C_ServerError ==
    /\ c_pc = "attempt"
    /\ c_attempt < c_args.max_retries
    /\ \E status \in ServerErrors : Retry(status, RetrySleep(c_client))
    /\ UNCHANGED nonClientVars

\* ---- inputs of the model ----
ClientArgs ==
    [ max_retries : { 1, 2, 3 }, mode : { "motorcycle", "hover" }, day_of_week : { 0, 7 } ]

ClientInit ==
    /\ c_client \in Clients
    /\ c_args \in ClientArgs
    /\ c_pc = "enter"
    /\ c_attempt = 0
    /\ c_log = << >>
    /\ c_slept = 0
    /\ c_ret = "none"

ClientIdle ==
    /\ c_client = "search_place_strict"
    /\ c_args = << >>
    /\ c_pc = "idle"
    /\ c_attempt = 0
    /\ c_log = << >>
    /\ c_slept = 0
    /\ c_ret = "none"

\* ------------------------------------------------------------------------
\* The entry of the batch flows and what they do about the input columns:
\* SmartBatchProcessor.load_from_excel (src/geoJson_generator.py),
\* process_restaurants (src/geocode-new.py), GeocoderBatch (src/batch.py)
\* ------------------------------------------------------------------------
Flows == { "load_from_excel", "process_restaurants", "GeocoderBatch" }

\* the columns an input workbook of the model can hold
AllColumns ==
    { "Provider Name", "Provider ID", "network_lat", "network_long", "bpp id",
      "Seller Pincode", "Seller City", "State", "Latitude" }

\* geoJson_generator.py:185 and geocode-new.py:700; GeocoderBatch has no such
\* list: its columns are the ones process() reads from a row, in the order
\* lines 169-176 of batch.py evaluate them
required_cols(flow) ==
    CASE flow = "load_from_excel" ->
           << "Provider Name", "Provider ID", "network_lat", "network_long", "bpp id",
              "Seller Pincode" >>
      [] flow = "process_restaurants" ->
           << "Provider Name", "Seller City", "Seller Pincode", "State", "network_lat",
              "network_long" >>
      [] flow = "GeocoderBatch" ->
           << "Provider Name", "Seller Pincode", "Seller City", "State" >>
      [] OTHER -> << >>

\* geoJson_generator.py:186: [col for col in required_cols if col not in df.columns]
missing_cols(cols, columns) == SelectSeq(cols, LAMBDA col : col \notin columns)

NoError == [ type |-> "none", names |-> << >> ]

\* geoJson_generator.py:178-189: the workbook is read and every missing column
\* is named in one ValueError; with all columns present the tasks are built
S_load_from_excel ==
    /\ s_pc = "start"
    /\ s_flow = "load_from_excel"
    /\ LET m == missing_cols(required_cols(s_flow), s_columns) IN
         IF m # << >>
           THEN /\ s_error' = [ type |-> "ValueError", names |-> m ]
                /\ s_pc' = "aborted"
           ELSE /\ s_error' = s_error
                /\ s_pc' = "dispatching"
    /\ UNCHANGED << s_flow, s_columns, s_idx, s_log >>
    /\ UNCHANGED nonSchemaVars

\* geocode-new.py:673-703: the loop over required_cols raises at the first
\* column that is missing and names that column
S_process_restaurants ==
    /\ s_pc = "start"
    /\ s_flow = "process_restaurants"
    /\ LET m == missing_cols(required_cols(s_flow), s_columns) IN
         IF m # << >>
           THEN /\ s_error' = [ type |-> "ValueError", names |-> << Head(m) >> ]
                /\ s_pc' = "aborted"
           ELSE /\ s_error' = s_error
                /\ s_pc' = "dispatching"
    /\ UNCHANGED << s_flow, s_columns, s_idx, s_log >>
    /\ UNCHANGED nonSchemaVars

\* batch.py:28-42 and 143-153: __init__ reads the workbook and adds the output
\* columns, process() enters its loop; no column is tested
S_Construct ==
    /\ s_pc = "start"
    /\ s_flow = "GeocoderBatch"
    /\ s_pc' = "loop"
    /\ s_idx' = 0
    /\ UNCHANGED << s_flow, s_columns, s_error, s_log >>
    /\ UNCHANGED nonSchemaVars

\* batch.py:163-166: the workbook came with a Latitude column and the cell of
\* the row (an input of the step) is populated
S_SkipRow ==
    /\ s_pc = "loop"
    /\ s_idx < NumRows
    /\ "Latitude" \in s_columns
    /\ s_idx' = s_idx + 1
    /\ UNCHANGED << s_flow, s_columns, s_pc, s_error, s_log >>
    /\ UNCHANGED nonSchemaVars

\* batch.py:169-202: the Latitude cell of the row is empty (always so when
\* __init__ added the column); row[...] raises
\* KeyError for a column the workbook does not hold and nothing catches it,
\* otherwise the geocoder is called and the interval test of line 193 follows
S_GeocodeRow ==
    /\ s_pc = "loop"
    /\ s_idx < NumRows
    /\ LET m == missing_cols(required_cols(s_flow), s_columns) IN
         IF m # << >>
           THEN /\ s_error' = [ type |-> "KeyError", names |-> << Head(m) >> ]
                /\ s_pc' = "aborted"
                /\ UNCHANGED << s_idx, s_log >>
           ELSE /\ s_log' = s_log \cup { "api_call" } \cup
                              IF (s_idx + 1) % AUTO_SAVE_INTERVAL = 0
                                THEN { "output_written" } ELSE {}
                /\ s_idx' = s_idx + 1
                /\ UNCHANGED << s_pc, s_error >>
    /\ UNCHANGED << s_flow, s_columns >>
    /\ UNCHANGED nonSchemaVars

\* batch.py:205-231: the loop is exhausted; final save, unlink and summary
S_FinalSave ==
    /\ s_pc = "loop"
    /\ s_idx >= NumRows
    /\ s_log' = s_log \cup { "output_written" }
    /\ s_pc' = "done"
    /\ UNCHANGED << s_flow, s_columns, s_idx, s_error >>
    /\ UNCHANGED nonSchemaVars

SchemaInit ==
    /\ s_flow \in Flows
    /\ s_columns \in SUBSET AllColumns
    /\ s_pc = "start"
    /\ s_idx = 0
    /\ s_error = NoError
    /\ s_log = {}

SchemaIdle ==
    /\ s_flow = "idle"
    /\ s_columns = {}
    /\ s_pc = "idle"
    /\ s_idx = 0
    /\ s_error = << >>
    /\ s_log = {}

\* ------------------------------------------------------------------------
\* The worker-pool flows: smart_batch_process with SmartBatchProcessor
\* (src/geoJson_generator.py, p_impl = "plain") and
\* batch_process_from_excel_with_traffic with ExcelBatchProcessor
\* (src/optimized_geo_generator.py, p_impl = "optimized").
\* Every row has coordinates and every task carries one distance band. The
\* main thread is the orchestrator; a worker thread of the pool runs
\* process_single_provider on one task.
\* ------------------------------------------------------------------------
\* a row of the workbook with the files it refers to: zones_file is empty, the
\* path generate_filename gives the row in output_dir ("own") or another path
\* ("other"); own and other tell whether the file at that path exists
ZRowKinds ==
    { [ zones_file |-> "empty", own |-> FALSE, other |-> FALSE ],
      [ zones_file |-> "empty", own |-> TRUE, other |-> FALSE ],
      [ zones_file |-> "own", own |-> FALSE, other |-> FALSE ],
      [ zones_file |-> "own", own |-> TRUE, other |-> FALSE ],
      [ zones_file |-> "other", own |-> FALSE, other |-> FALSE ],
      [ zones_file |-> "other", own |-> FALSE, other |-> TRUE ],
      [ zones_file |-> "other", own |-> TRUE, other |-> FALSE ],
      [ zones_file |-> "other", own |-> TRUE, other |-> TRUE ] }

\* geoJson_generator.py:152-156: (self.output_dir / filename).exists()
file_exists(row) == row.own

\* is_already_processed_in_excel without the test of Path(zones_file).exists()
is_already_processed_in_excel_unchecked(row) == row.zones_file # "empty"

\* geoJson_generator.py:158-166
is_already_processed_in_excel(row) ==
    /\ row.zones_file # "empty"
    /\ IF row.zones_file = "own" THEN row.own ELSE row.other

NoLists == [ all_tasks |-> << >>, skipped_excel |-> << >>, skipped_file |-> << >> ]

\* the loader with the test of the output directory made before the test of
\* the workbook
ListOf_file_first(impl, skip_existing, row) ==
    IF impl = "plain" /\ skip_existing /\ file_exists(row)
      THEN "skipped_file"
    ELSE IF impl = "plain" /\ skip_existing /\ is_already_processed_in_excel(row)
      THEN "skipped_excel"
    ELSE "all_tasks"

\* the list a row of the plain loader goes to (geoJson_generator.py:216-228);
\* the loader of optimized_geo_generator.py:787-804 makes every row a task
ListOf(impl, skip_existing, row) ==
    IF impl = "plain" /\ skip_existing /\ is_already_processed_in_excel(row)
      THEN "skipped_excel"
    ELSE IF impl = "plain" /\ skip_existing /\ file_exists(row)
      THEN "skipped_file"
    ELSE "all_tasks"

\* no future exists for the row
NoFuture == [ st |-> "none", status |-> "none", reg |-> 0, late |-> FALSE ]

\* optimized_geo_generator.py:454-458; traffic_adjusted, which line 544
\* increments right after generated, is left out
ZeroStats == [ generated |-> 0, failed |-> 0 ]

NoDisk == [ written |-> FALSE, rows |-> << >>, summary |-> << >> ]

\* the elements of a list
Range(s) == { s[i] : i \in DOMAIN s }

\* load_from_excel, one iteration of the loop over df_valid.iterrows()
P_LoadRow ==
    /\ p_pc = "load"
    /\ p_idx < NumTasks
    /\ LET l == ListOf(p_impl, p_skip_existing, p_rows[p_idx]) IN
         p_lists' = [ p_lists EXCEPT ![l] = Append(@, p_idx) ]
    /\ p_idx' = p_idx + 1
    /\ UNCHANGED << p_impl, p_skip_existing, p_rows, p_pc, p_futures, p_results, p_df, p_disk,
                    p_stats, p_signal >>
    /\ UNCHANGED nonPoolVars

\* load_from_excel returns and process_batch is entered
\* (geoJson_generator.py:230-245 and 506-518, optimized_geo_generator.py:806-826 and 1081-1085)
P_LoadDone ==
    /\ p_pc = "load"
    /\ p_idx >= NumTasks
    /\ p_pc' = "submit"
    /\ UNCHANGED << p_impl, p_skip_existing, p_rows, p_idx, p_lists, p_futures, p_results, p_df,
                    p_disk, p_stats, p_signal >>
    /\ UNCHANGED nonPoolVars

\* process_batch up to the as_completed loop: every task is submitted to the
\* executor (geoJson_generator.py:313-331, optimized_geo_generator.py:902-917);
\* without tasks the loop has nothing to wait for
P_Submit ==
    /\ p_pc = "submit"
    /\ p_futures' = [ t \in Tasks |->
                        IF t \in Range(p_lists.all_tasks)
                          THEN [ NoFuture EXCEPT !.st = "queued" ] ELSE NoFuture ]
    /\ p_pc' = IF p_lists.all_tasks = << >> THEN "merge" ELSE "collect"
    /\ UNCHANGED << p_impl, p_skip_existing, p_rows, p_idx, p_lists, p_results, p_df, p_disk,
                    p_stats, p_signal >>
    /\ UNCHANGED nonPoolVars

\* the tasks worker threads are busy with
Busy == { t \in Tasks : p_futures[t].st \in { "running", "adding" } }

\* the queue of the executor is first in, first out: the task a free worker takes
NextQueued ==
    LET q == SelectSeq(p_lists.all_tasks, LAMBDA t : p_futures[t].st = "queued") IN Head(q)

\* a free worker thread takes the next task from the queue of the executor;
\* the queue is served whether or not the main thread is still in its loop
P_WorkerStart ==
    /\ p_pc \in { "collect", "shutdown" }
    /\ \E t \in Tasks : p_futures[t].st = "queued"
    /\ Cardinality(Busy) < max_workers
    /\ p_futures' = [ p_futures EXCEPT ![NextQueued] =
                        [ @ EXCEPT !.st = "running", !.late = p_signal ] ]
    /\ UNCHANGED << p_impl, p_skip_existing, p_rows, p_pc, p_idx, p_lists, p_results, p_df,
                    p_disk, p_stats, p_signal >>
    /\ UNCHANGED nonPoolVars

\* the band request of the task ends. optimized_geo_generator.py:543 and 551:
\* the worker evaluates self.stats[key] of self.stats[key] += 1 (the store is
\* P_StatsStore). geoJson_generator.py:247-302: the generator of the plain
\* flow keeps no statistics and the worker returns its result
P_BandReturns(t) ==
    /\ p_futures[t].st = "running"
    /\ \E status \in { "success", "failed" } :
         p_futures' = [ p_futures EXCEPT ![t] =
           IF p_impl = "optimized"
             THEN [ @ EXCEPT !.st = "adding", !.status = status,
                             !.reg = IF status = "success" THEN p_stats.generated
                                     ELSE p_stats.failed ]
             ELSE [ @ EXCEPT !.st = "finished", !.status = status ] ]
    /\ UNCHANGED << p_impl, p_skip_existing, p_rows, p_pc, p_idx, p_lists, p_results, p_df,
                    p_disk, p_stats, p_signal >>
    /\ UNCHANGED nonPoolVars

\* optimized_geo_generator.py:543 and 551: the worker stores the value it read
\* plus one into self.stats[key]; process_single_provider then returns (828-894)
P_StatsStore(t) ==
    /\ p_futures[t].st = "adding"
    /\ p_stats' = IF p_futures[t].status = "success"
                    THEN [ p_stats EXCEPT !.generated = p_futures[t].reg + 1 ]
                    ELSE [ p_stats EXCEPT !.failed = p_futures[t].reg + 1 ]
    /\ p_futures' = [ p_futures EXCEPT ![t].st = "finished" ]
    /\ UNCHANGED << p_impl, p_skip_existing, p_rows, p_pc, p_idx, p_lists, p_results, p_df,
                    p_disk, p_signal >>
    /\ UNCHANGED nonPoolVars

\* one iteration of "for future in as_completed(futures)": the result of a
\* finished future is appended to results
\* (geoJson_generator.py:333-343, optimized_geo_generator.py:919-929)
P_Collect(t) ==
    /\ p_pc = "collect"
    /\ p_futures[t].st = "finished"
    /\ p_results' = Append(p_results, [ excel_idx |-> t, status |-> p_futures[t].status ])
    /\ p_futures' = [ p_futures EXCEPT ![t].st = "collected" ]
    /\ UNCHANGED << p_impl, p_skip_existing, p_rows, p_pc, p_idx, p_lists, p_df, p_disk,
                    p_stats, p_signal >>
    /\ UNCHANGED nonPoolVars

\* as_completed is exhausted, the with block is left and process_batch returns
P_LoopEnd ==
    /\ p_pc = "collect"
    /\ \A t \in Tasks : p_futures[t].st \in { "none", "collected" }
    /\ p_pc' = "merge"
    /\ UNCHANGED << p_impl, p_skip_existing, p_rows, p_idx, p_lists, p_futures, p_results, p_df,
                    p_disk, p_stats, p_signal >>
    /\ UNCHANGED nonPoolVars

\* KeyboardInterrupt is raised in the main thread while it waits in
\* as_completed; nothing in the two files catches it, and leaving the with
\* block calls executor.shutdown(wait=True)
P_Signal ==
    /\ p_pc = "collect"
    /\ p_signal' = TRUE
    /\ p_pc' = "shutdown"
    /\ UNCHANGED << p_impl, p_skip_existing, p_rows, p_idx, p_lists, p_futures, p_results, p_df,
                    p_disk, p_stats >>
    /\ UNCHANGED nonPoolVars

\* shutdown(wait=True) returns once the worker threads have emptied the queue;
\* the exception leaves process_batch and ends the program
P_ShutdownDone ==
    /\ p_pc = "shutdown"
    /\ \A t \in Tasks : p_futures[t].st \in { "none", "finished", "collected" }
    /\ p_pc' = "interrupted"
    /\ UNCHANGED << p_impl, p_skip_existing, p_rows, p_idx, p_lists, p_futures, p_results, p_df,
                    p_disk, p_stats, p_signal >>
    /\ UNCHANGED nonPoolVars

\* the columns of df when the loop over results starts:
\* geoJson_generator.py:373-378 adds the columns that are missing,
\* optimized_geo_generator.py:960-964 assigns None to the whole columns
AddColumns(impl, d) ==
    IF impl = "optimized"
      THEN [ r \in Tasks |-> [ zones_file |-> "empty", processing_status |-> "none" ] ]
      ELSE d

\* the loop over results with each result written to the row at its position in the list
RECURSIVE MergeResults_by_position(_, _, _)
MergeResults_by_position(d, rs, pos) ==
    IF rs = << >> THEN d
    ELSE LET result == Head(rs)
             excel_idx == pos
         IN  MergeResults_by_position(
               IF result.status = "success"
                 THEN [ d EXCEPT ![excel_idx] = [ zones_file |-> "own", processing_status |-> "success" ] ]
                 ELSE [ d EXCEPT ![excel_idx].processing_status = "failed" ],
               Tail(rs), pos + 1)

\* geoJson_generator.py:381-390, optimized_geo_generator.py:966-978:
\* for result in results: idx = result['excel_idx']; df.at[idx, ...] = ...
\* (pos counts the iterations)
RECURSIVE MergeResults(_, _, _)
MergeResults(d, rs, pos) ==
    IF rs = << >> THEN d
    ELSE LET result == Head(rs)
             excel_idx == result.excel_idx
         IN  MergeResults(
               IF result.status = "success"
                 THEN [ d EXCEPT ![excel_idx] = [ zones_file |-> "own", processing_status |-> "success" ] ]
                 ELSE [ d EXCEPT ![excel_idx].processing_status = "failed" ],
               Tail(rs), pos + 1)

\* geoJson_generator.py:392-409: the rows of skipped_file whose zones_file is empty
MarkSkippedFile(d, skipped_file) ==
    [ r \in Tasks |->
        IF r \in Range(skipped_file) /\ d[r].zones_file = "empty"
          THEN [ zones_file |-> "own", processing_status |-> "file_exists_added_to_excel" ]
          ELSE d[r] ]

\* add_results_to_excel and save_summary (geoJson_generator.py:359-477 and 519-520,
\* optimized_geo_generator.py:947-1032): the results are merged into df, the
\* workbook is written, and the summary is written with the counts of results
\* and, in the optimized flow, with self.generator.stats
P_Merge ==
    /\ p_pc = "merge"
    /\ LET merged == MergeResults(AddColumns(p_impl, p_df), p_results, 0)
           d == IF p_impl = "plain" THEN MarkSkippedFile(merged, p_lists.skipped_file)
                ELSE merged
           count(s) == Cardinality({ i \in DOMAIN p_results : p_results[i].status = s })
       IN  /\ p_df' = d
           /\ p_disk' = [ written |-> TRUE, rows |-> d,
                          summary |-> [ total_providers |->
                                          IF p_impl = "plain"
                                            THEN Len(p_results) + Len(p_lists.skipped_excel)
                                                   + Len(p_lists.skipped_file)
                                            ELSE Len(p_results),
                                        successful |-> count("success"),
                                        failed |-> count("failed"),
                                        generator_stats |->
                                          IF p_impl = "optimized" THEN p_stats
                                          ELSE ZeroStats ] ]
    /\ p_pc' = "done"
    /\ UNCHANGED << p_impl, p_skip_existing, p_rows, p_idx, p_lists, p_futures, p_results,
                    p_stats, p_signal >>
    /\ UNCHANGED nonPoolVars

\* the workbook as pd.read_excel returns it
ReadZoneRows(rows) ==
    [ r \in Tasks |-> [ zones_file |-> rows[r].zones_file, processing_status |-> "none" ] ]

\* rows that were never processed, rows a completed run left behind, and rows
\* whose file was written by a run that ended before the workbook was written
PoolRowKinds ==
    { [ zones_file |-> "empty", own |-> FALSE, other |-> FALSE ],
      [ zones_file |-> "own", own |-> TRUE, other |-> FALSE ],
      [ zones_file |-> "empty", own |-> TRUE, other |-> FALSE ] }

\* the state after the constructor and pd.read_excel, for the workbooks of
\* kinds and the values skips of skip_existing
PoolStart(kinds, skips) ==
    /\ p_impl \in { "plain", "optimized" }
    /\ p_skip_existing \in skips
    /\ p_rows \in [ Tasks -> kinds ]
    /\ p_pc = "load"
    /\ p_idx = 0
    /\ p_lists = NoLists
    /\ p_futures = [ t \in Tasks |-> NoFuture ]
    /\ p_results = << >>
    /\ p_df = ReadZoneRows(p_rows)
    /\ p_disk = NoDisk
    /\ p_stats = ZeroStats
    /\ p_signal = FALSE

\* the loader of the optimized flow does not read zones_file: one workbook
PoolInit ==
    /\ PoolStart(PoolRowKinds, { TRUE })
    /\ p_impl = "optimized" =>
         p_rows = [ t \in Tasks |-> [ zones_file |-> "empty", own |-> FALSE, other |-> FALSE ] ]

LoadInit == PoolStart(ZRowKinds, BOOLEAN)

PoolIdle ==
    /\ p_impl = "idle"
    /\ p_skip_existing = FALSE
    /\ p_rows = << >>
    /\ p_pc = "idle"
    /\ p_idx = 0
    /\ p_lists = << >>
    /\ p_futures = << >>
    /\ p_results = << >>
    /\ p_df = << >>
    /\ p_disk = << >>
    /\ p_stats = << >>
    /\ p_signal = FALSE

\* ------------------------------------------------------------------------
\* process_restaurants and geocode_restaurant_enhanced (src/geocode_restaurants.py)
\* Every row has a pincode and a state; start_row is 0.
\* ------------------------------------------------------------------------
\* the rows an input workbook can hold: name is the Provider Name cell as pandas
\* reads it (a str, NaN for an empty cell, a number for a numeric cell), city
\* tells whether Seller City is present, located whether lat and long are populated
ERowKinds ==
    { [ name |-> "text", city |-> TRUE, located |-> FALSE ],
      [ name |-> "text", city |-> TRUE, located |-> TRUE ],
      [ name |-> "text", city |-> FALSE, located |-> FALSE ],
      [ name |-> "nan", city |-> TRUE, located |-> FALSE ],
      [ name |-> "number", city |-> TRUE, located |-> FALSE ] }

EZeroCounts == [ processed |-> 0, successful |-> 0, failed |-> 0, skipped |-> 0 ]

\* geocode_restaurants.py:268-321: client, workbook, columns, the early return
E_Load ==
    /\ e_pc = "start"
    /\ e_df' = [ r \in Rows |-> IF e_input[r].located THEN "in" ELSE "nan" ]
    /\ LET already_geocoded == Cardinality({ r \in Rows : e_input[r].located })
           needs_geocoding == NumRows - already_geocoded
       IN  e_pc' = IF needs_geocoding = 0 THEN "returned" ELSE "loop"
    /\ UNCHANGED << e_input, e_idx, e_cnt, e_calls, e_out >>
    /\ UNCHANGED nonEnhVars

\* geocode_restaurants.py:333-345: the row already has lat and long
E_SkipDone ==
    /\ e_pc = "loop"
    /\ e_idx < NumRows
    /\ e_df[e_idx] # "nan"
    /\ e_cnt' = [ e_cnt EXCEPT !.skipped = @ + 1, !.processed = @ + 1 ]
    /\ e_idx' = e_idx + 1
    /\ UNCHANGED << e_input, e_pc, e_calls, e_df, e_out >>
    /\ UNCHANGED nonEnhVars

\* geocode_restaurants.py:354: the test that guards the print of the name
ShowsRow(processed) == processed % 10 = 0 \/ processed < 5

\* geocode_restaurants.py:354-355 and 511-515: provider_name[:50] raises
\* TypeError for a name that is NaN (a float) or a number; the statement is
\* outside the try of line 358, so the exception leaves process_restaurants
\* and main exits with status 1
E_ShowRaises ==
    /\ e_pc = "loop"
    /\ e_idx < NumRows
    /\ e_df[e_idx] = "nan"
    /\ ShowsRow(e_cnt.processed)
    /\ e_input[e_idx].name # "text"
    /\ e_pc' = "aborted"
    /\ UNCHANGED << e_input, e_idx, e_cnt, e_calls, e_df, e_out >>
    /\ UNCHANGED nonEnhVars

\* geocode_restaurants.py:138-140: pd.isna(provider_name) or pd.isna(city)
MissingEssential(row) == row.name = "nan" \/ ~row.city

\* geocode_restaurants.py:357-406 with geocode_restaurant_enhanced (126-237):
\* the rest of the iteration. A row with a missing name or city gets the
\* all-None result without a request; for any other row requests are sent and
\* the call returns a filled result, the all-None result, or raises
E_Geocode ==
    /\ e_pc = "loop"
    /\ e_idx < NumRows
    /\ e_df[e_idx] = "nan"
    /\ ~(ShowsRow(e_cnt.processed) /\ e_input[e_idx].name # "text")
    /\ \E res \in IF MissingEssential(e_input[e_idx]) THEN { "null" }
                  ELSE { "filled", "null", "raise" } :
         LET cnt == [ e_cnt EXCEPT !.processed = @ + 1,
                                   !.successful = IF res = "filled" THEN @ + 1 ELSE @,
                                   !.failed = IF res = "filled" THEN @ ELSE @ + 1 ]
             d == IF res = "filled" THEN [ e_df EXCEPT ![e_idx] = "geo" ] ELSE e_df
         IN  /\ e_cnt' = cnt
             /\ e_df' = d
             /\ e_calls' = IF MissingEssential(e_input[e_idx]) THEN e_calls
                           ELSE e_calls \cup { e_idx }
             /\ e_out' = IF cnt.processed % save_interval = 0
                           THEN [ st |-> "written", rows |-> d ] ELSE e_out
    /\ e_idx' = e_idx + 1
    /\ UNCHANGED << e_input, e_pc >>
    /\ UNCHANGED nonEnhVars

\* geocode_restaurants.py:408-450: the loop is exhausted, final save and statistics
E_FinalSave ==
    /\ e_pc = "loop"
    /\ e_idx >= NumRows
    /\ e_out' = [ st |-> "written", rows |-> e_df ]
    /\ e_pc' = "done"
    /\ UNCHANGED << e_input, e_idx, e_cnt, e_calls, e_df >>
    /\ UNCHANGED nonEnhVars

EnhInit ==
    /\ e_input \in [ Rows -> ERowKinds ]
    /\ e_pc = "start"
    /\ e_idx = 0
    /\ e_cnt = EZeroCounts
    /\ e_calls = {}
    /\ e_df = [ r \in Rows |-> "nan" ]
    /\ e_out = NoOutput

EnhIdle ==
    /\ e_input = << >>
    /\ e_pc = "idle"
    /\ e_idx = 0
    /\ e_cnt = << >>
    /\ e_calls = {}
    /\ e_df = << >>
    /\ e_out = << >>

\* ------------------------------------------------------------------------
\* Zone file names: SmartBatchProcessor.generate_filename
\* (src/geoJson_generator.py) and BatchOutputOrganizer.parse_filename
\* (src/organizer.py). Strings are sequences of one-character strings.
\* ------------------------------------------------------------------------
\* lines 141-142: the chain of str.replace calls on one character
CleanChar(c) ==
    IF c \in { " ", "/", "\\" } THEN << "_" >>
    ELSE IF c \in { ",", ":", "?" } THEN << >>
    ELSE << c >>

\* lines 141-142
RECURSIVE clean_string(_)
clean_string(s) == IF s = << >> THEN << >> ELSE CleanChar(Head(s)) \o clean_string(Tail(s))

DotGeojson == << ".", "g", "e", "o", "j", "s", "o", "n" >>

\* lines 139-150
generate_filename(task) ==
    clean_string(task.bpp_id) \o << "+" >> \o clean_string(task.name) \o << "+" >>
      \o clean_string(task.provider_id) \o << "+" >> \o clean_string(task.pincode)
      \o DotGeojson

\* str.endswith
EndsWith(s, suffix) ==
    Len(s) >= Len(suffix) /\ SubSeq(s, Len(s) - Len(suffix) + 1, Len(s)) = suffix

\* str.split(sep) for a one-character separator
RECURSIVE Split(_, _, _)
Split(s, sep, cur) ==
    IF s = << >> THEN << cur >>
    ELSE IF Head(s) = sep THEN << cur >> \o Split(Tail(s), sep, << >>)
    ELSE Split(Tail(s), sep, Append(cur, Head(s)))

\* parse_filename returned None
NotParsed ==
    [ ok |-> FALSE, bpp_id |-> << >>, provider_name |-> << >>, provider_id |-> << >>,
      pincode |-> << >> ]

\* lines 379-400, the city and original_filename entries left out
parse_filename(filename) ==
    IF ~EndsWith(filename, DotGeojson) THEN NotParsed
    ELSE LET name_parts == SubSeq(filename, 1, Len(filename) - 8)
             parts == Split(name_parts, "+", << >>)
         IN  IF Len(parts) # 4 THEN NotParsed
             ELSE [ ok |-> TRUE, bpp_id |-> parts[1], provider_name |-> parts[2],
                    provider_id |-> parts[3], pincode |-> parts[4] ]

\* ---- inputs of the model ----
Items == 1 .. NumItems

FBppIds == { << "x", ".", "y" >> }

FNames ==
    { << "a", " ", "b" >>, << "a", "_", "b" >>, << "a", ",", "b" >>, << "a", "b" >>,
      << "a", "+", "b" >>, << "a" >> }

FProviderIds == { << "1" >>, << "b", "+", "1" >> }

FPincodes == { << "4", "1" >> }

FTasks == [ bpp_id : FBppIds, name : FNames, provider_id : FProviderIds, pincode : FPincodes ]

\* ---- actions ----
\* process_single_provider, lines 271-276: the worker of an item opens its file
\* for writing; the workers of one batch run in any order
F_Write(item) ==
    /\ \A i \in DOMAIN f_writes : f_writes[i].item # item
    /\ f_writes' = Append(f_writes, [ item |-> item,
                                      filename |-> generate_filename(f_tasks[item]) ])
    /\ UNCHANGED << f_tasks, f_parsed >>
    /\ UNCHANGED nonFileVars

\* organizer.py, line 425: copy_file parses the name of a file of the source directory
F_Parse ==
    /\ \E i \in DOMAIN f_writes :
         /\ f_writes[i].filename \notin { p.filename : p \in f_parsed }
         /\ f_parsed' = f_parsed \cup { [ filename |-> f_writes[i].filename,
                                           parsed |-> parse_filename(f_writes[i].filename) ] }
    /\ UNCHANGED << f_tasks, f_writes >>
    /\ UNCHANGED nonFileVars

\* the tasks load_from_excel built for one batch, no file written yet
FileInit ==
    /\ f_tasks \in [ Items -> FTasks ]
    /\ f_writes = << >>
    /\ f_parsed = {}

FileIdle ==
    /\ f_tasks = << >>
    /\ f_writes = << >>
    /\ f_parsed = {}

\* the batch flow is not running
BatchIdle ==
    /\ input_file = [ r \in Rows |-> FALSE ]
    /\ progress_file = NoFile
    /\ output_file = NoOutput
    /\ df = [ r \in Rows |-> "nan" ]
    /\ progress = ZeroProgress
    /\ pc = "idle"
    /\ idx = 0
    /\ lat = "nan"
    /\ ret = "none"
    /\ runs = 1
    /\ last_end = "none"
    /\ loaded_from = "none"
    /\ sent = {}
    /\ pending = {}
    /\ intr_idx = -1
    /\ done_output = NoOutput

Init ==
    /\ input_file \in [ Rows -> BOOLEAN ]
    /\ progress_file = NoFile
    /\ output_file = NoOutput
    /\ df = [ r \in Rows |-> "nan" ]
    /\ progress = ZeroProgress
    /\ pc = "init"
    /\ idx = 0
    /\ lat = "nan"
    /\ ret = "none"
    /\ runs = 1
    /\ last_end = "none"
    /\ loaded_from = "none"
    /\ sent = {}
    /\ pending = {}
    /\ intr_idx = -1
    /\ done_output = NoOutput
    /\ StrictIdle
    /\ RestIdle
    /\ TrafficIdle
    /\ ZoneIdle
    /\ ClientIdle
    /\ SchemaIdle
    /\ PoolIdle
    /\ EnhIdle
    /\ FileIdle

Next ==
    \/ Construct
    \/ SkipRow
    \/ StartGeocode
    \/ GeocodeReturn
    \/ StoreResult
    \/ Advance
    \/ LoopExit
    \/ save_progress_open
    \/ save_progress_dump
    \/ save_output
    \/ Unlink
    \/ Finish
    \/ Interrupt
    \/ Crash
    \/ Restart

vars == << batchVars, strictVars, restVars, trafficVars, zoneVars, clientVars, schemaVars, poolVars, enhVars, fileVars >>

Spec == Init /\ [][Next]_vars

\* the files a run stopped by a signal after k geocoded rows leaves behind
\* (lines 216-219), and no files for k = 0
LeftBy(k) ==
    /\ \A r \in Rows : r < k => ~input_file[r]
    /\ progress_file =
         IF k = 0 THEN NoFile
         ELSE [ st |-> "complete",
                rec |-> [ last_row |-> k, processed_count |-> k, success_count |-> k,
                          fail_count |-> 0 ] ]
    /\ output_file =
         IF k = 0 THEN NoOutput
         ELSE [ st |-> "written",
                rows |-> [ r \in Rows |-> IF r < k THEN "geo" ELSE ReadInput(input_file)[r] ] ]
    /\ last_end = IF k = 0 THEN "none" ELSE "interrupted"

\* one run of the script, on a fresh workbook or on the files of an interrupted run
InitRun ==
    /\ input_file \in [ Rows -> BOOLEAN ]
    /\ \E k \in 0 .. NumRows : LeftBy(k)
    /\ df = [ r \in Rows |-> "nan" ]
    /\ progress = ZeroProgress
    /\ pc = "init"
    /\ idx = 0
    /\ lat = "nan"
    /\ ret = "none"
    /\ runs = 1
    /\ loaded_from = "none"
    /\ sent = {}
    /\ pending = {}
    /\ intr_idx = -1
    /\ done_output = NoOutput
    /\ StrictIdle /\ RestIdle /\ TrafficIdle /\ ZoneIdle /\ ClientIdle /\ SchemaIdle
    /\ PoolIdle /\ EnhIdle /\ FileIdle

\* lines 169-170: provider[:40] of a Provider Name cell that is not text (an
\* empty cell, read as NaN, or a number) raises TypeError, which the except of
\* line 216 does not catch: process ends without a save
ShowRaises ==
    /\ pc = "loop"
    /\ idx < NumRows
    /\ df[idx] = "nan"
    /\ \E provider \in { "text", "nan", "number" } :
           /\ provider # "text"
           /\ pc' = "raised"
    /\ UNCHANGED << input_file, progress_file, output_file, df, progress, idx, lat, ret, runs,
                    last_end, loaded_from, sent, pending, intr_idx, done_output >>
    /\ UNCHANGED nonBatchVars

\* the statements of __init__ and process, which the interpreter keeps executing
RunStep ==
    \/ Construct
    \/ SkipRow
    \/ ShowRaises
    \/ StartGeocode
    \/ GeocodeReturn
    \/ StoreResult
    \/ Advance
    \/ LoopExit
    \/ save_progress_open
    \/ save_progress_dump
    \/ save_output
    \/ Unlink
    \/ Finish

NextRun ==
    \/ RunStep
    \/ Interrupt

\* the run goes on as long as a statement is left to execute; requests.get
\* returns or raises within its timeout (lines 99, 119)
SpecRun == InitRun /\ [][NextRun]_vars /\ WF_vars(RunStep)

\* geocode_restaurant_strict on its own
InitStrict == BatchIdle /\ RestIdle /\ TrafficIdle /\ ZoneIdle /\ ClientIdle /\ SchemaIdle /\ PoolIdle /\ EnhIdle /\ FileIdle /\ StrictInit

NextStrict ==
    \/ QueryNoPlace
    \/ QueryPlace
    \/ QueryRaises
    \/ NoMatch

SpecStrict == InitStrict /\ [][NextStrict]_vars

\* process_restaurants driven by main, on its own
InitRestaurants == BatchIdle /\ StrictIdle /\ TrafficIdle /\ ZoneIdle /\ ClientIdle /\ SchemaIdle /\ PoolIdle /\ EnhIdle /\ FileIdle /\ RestInit

NextRestaurants ==
    \/ R_Load
    \/ R_SkipDone
    \/ R_SkipNoData
    \/ R_StartGeocode
    \/ R_GeocodeReturn
    \/ R_Merge
    \/ R_Count
    \/ R_AutoSave
    \/ R_FinalSave
    \/ R_Interrupt

SpecRestaurants == InitRestaurants /\ [][NextRestaurants]_vars

\* the methods of HistoricalTrafficModel applied to every argument of the model
InitTraffic == BatchIdle /\ StrictIdle /\ RestIdle /\ ZoneIdle /\ ClientIdle /\ SchemaIdle /\ PoolIdle /\ EnhIdle /\ FileIdle /\ TrafficInit

NextTraffic ==
    \/ T_calculate_traffic_factor
    \/ T_adjust_distance_for_traffic
    \/ T_get_traffic_metadata

SpecTraffic == InitTraffic /\ [][NextTraffic]_vars

\* process_single_provider on one task
InitZones == BatchIdle /\ StrictIdle /\ RestIdle /\ TrafficIdle /\ ClientIdle /\ SchemaIdle /\ PoolIdle /\ EnhIdle /\ FileIdle /\ ZoneInit

NextZones ==
    \/ Z_DistanceBand
    \/ Z_TimeBand
    \/ Z_BandsDone
    \/ Z_Combine

SpecZones == InitZones /\ [][NextZones]_vars

\* one call of one client
InitClient == BatchIdle /\ StrictIdle /\ RestIdle /\ TrafficIdle /\ ZoneIdle /\ SchemaIdle /\ PoolIdle /\ EnhIdle /\ FileIdle /\ ClientInit

NextClient ==
    \/ C_Enter
    \/ C_Success
    \/ C_ClientError
    \/ C_RateLimited
    \/ C_ServerError

SpecClient == InitClient /\ [][NextClient]_vars

\* the entry of one batch flow on one input workbook
InitSchema == BatchIdle /\ StrictIdle /\ RestIdle /\ TrafficIdle /\ ZoneIdle /\ ClientIdle /\ PoolIdle /\ EnhIdle /\ FileIdle /\ SchemaInit

NextSchema ==
    \/ S_load_from_excel
    \/ S_process_restaurants
    \/ S_Construct
    \/ S_SkipRow
    \/ S_GeocodeRow
    \/ S_FinalSave

SpecSchema == InitSchema /\ [][NextSchema]_vars

\* a run of a worker-pool flow over a workbook of new and of completed rows
InitPool == BatchIdle /\ StrictIdle /\ RestIdle /\ TrafficIdle /\ ZoneIdle /\ ClientIdle /\ SchemaIdle /\ EnhIdle /\ FileIdle /\ PoolInit

NextPool ==
    \/ P_LoadRow
    \/ P_LoadDone
    \/ P_Submit
    \/ P_WorkerStart
    \/ \E t \in Tasks : P_BandReturns(t)
    \/ \E t \in Tasks : P_StatsStore(t)
    \/ \E t \in Tasks : P_Collect(t)
    \/ P_LoopEnd
    \/ P_Signal
    \/ P_ShutdownDone
    \/ P_Merge

SpecPool == InitPool /\ [][NextPool]_vars

\* load_from_excel over every workbook of the model
InitLoad == BatchIdle /\ StrictIdle /\ RestIdle /\ TrafficIdle /\ ZoneIdle /\ ClientIdle /\ SchemaIdle /\ EnhIdle /\ FileIdle /\ LoadInit

NextLoad ==
    \/ P_LoadRow
    \/ P_LoadDone

SpecLoad == InitLoad /\ [][NextLoad]_vars

\* process_restaurants of geocode_restaurants.py, driven by its main
InitEnhanced == BatchIdle /\ StrictIdle /\ RestIdle /\ TrafficIdle /\ ZoneIdle /\ ClientIdle /\ SchemaIdle /\ PoolIdle /\ FileIdle /\ EnhInit

NextEnhanced ==
    \/ E_Load
    \/ E_SkipDone
    \/ E_ShowRaises
    \/ E_Geocode
    \/ E_FinalSave

SpecEnhanced == InitEnhanced /\ [][NextEnhanced]_vars

\* the zone files of one batch and their names
InitFiles == BatchIdle /\ StrictIdle /\ RestIdle /\ TrafficIdle /\ ZoneIdle /\ ClientIdle /\ SchemaIdle /\ PoolIdle /\ EnhIdle /\ FileInit

NextFiles ==
    \/ \E item \in Items : F_Write(item)
    \/ F_Parse

SpecFiles == InitFiles /\ [][NextFiles]_vars

\* ------------------------------------------------------------------------
\* GeocoderBatch: properties
\* ------------------------------------------------------------------------
\* rows the next run will send to the geocoder: it starts at the recorded
\* last_row and geocodes every row whose Latitude is empty in the input workbook
WillBeSent(r) == r >= progress_file.rec.last_row /\ ~input_file[r]

\* C1: after a stop signal the files on disk let the next run resume at most
\* AUTO_SAVE_INTERVAL rows before the interruption point, no row whose geocoded
\* outcome is in the output file is sent to the geocoder again, and at most one
\* interval of completed rows is unflushed.
C1_InterruptionSafety ==
    pc = "interrupted" =>
        /\ progress_file.st = "complete"
        /\ intr_idx - progress_file.rec.last_row <= AUTO_SAVE_INTERVAL
        /\ \A r \in Rows : WillBeSent(r) => output_file.rows[r] # "geo"
        /\ Cardinality(pending) <= AUTO_SAVE_INTERVAL

\* C2: a run started after a run that completed, on the same dataset and the
\* same checkpoint state, sends no row to the geocoder and leaves the output
\* file as the completed run left it.
C2_ResumeIdempotent ==
    last_end = "done" => sent = {} /\ output_file = done_output

\* C3: at every point of the row loop at most AUTO_SAVE_INTERVAL rows have an
\* API outcome that is in memory only and not in the written output file.
C3_BoundedLoss ==
    Cardinality(pending) <= AUTO_SAVE_INTERVAL

\* C4: after a clean completion no progress file exists, and after a run that
\* ended by interruption a progress file exists.
C4_CheckpointRemovedIffComplete ==
    /\ pc = "done" => progress_file.st = "absent"
    /\ pc = "interrupted" => progress_file.st # "absent"

\* C4 witness: a resumed run found a progress file, visited the remaining rows
\* and completed.
C4_Witness ==
    pc = "done" /\ loaded_from = "complete" /\ last_end = "interrupted"

\* C6: last_row never decreases within a run, and at the head of every loop
\* iteration it equals the index of the next row to visit.
C6_LastRowTracksLoop ==
    /\ [][ (pc # "init" /\ pc' # "init") => progress'.last_row >= progress.last_row ]_vars
    /\ [](pc = "loop" => progress.last_row = idx)

\* C7: when the process dies, the progress file holds a complete record (the
\* previous one or the new one), never an empty or partial one.
C7_AtomicCheckpoint ==
    pc = "crashed" => progress_file.st # "partial"

\* C8: a run that finds a corrupt progress file starts from a fresh zeroed
\* record instead of failing.
C8_CorruptIsAbsent ==
    loaded_from = "partial" => pc # "load_error" /\ progress.last_row = 0

\* C34: whenever the progress file holds a record with last_row = k, the output
\* file holds the coordinates of every row below k that the run geocoded, also
\* between the two writes of one flush.
C34_CheckpointNotAheadOfOutput ==
    progress_file.st = "complete" =>
        \A r \in Rows :
            (r < progress_file.rec.last_row /\ df[r] = "geo") =>
                (output_file.st = "written" /\ output_file.rows[r] = "geo")

\* the run was started on the progress file an interrupted run left
Resumed == last_end = "interrupted" /\ loaded_from = "complete"

\* C35: a run resumed from the checkpoint of an interrupted run keeps, in every
\* auto-save and in its final save, the coordinates the output file already
\* held, so the output of the completed run holds the coordinates of
\* every row geocoded in any of the runs.
C35_ResumeKeepsEarlierResults ==
    [][ (Resumed /\ pc = "save_output" /\ ret \in { "auto", "final" }) =>
          \A r \in Rows : output_file.rows[r] = "geo" => output_file'.rows[r] = "geo" ]_vars

\* C36: every record in the progress file has processed_count = success_count
\* + fail_count and a processed_count of at most the number of rows, after any
\* runs, skips, interruptions and resumes.
C36_CountersConsistent ==
    progress_file.st = "complete" =>
        /\ progress_file.rec.processed_count
              = progress_file.rec.success_count + progress_file.rec.fail_count
        /\ progress_file.rec.processed_count <= NumRows

\* the run ended with the final save made and the progress file removed
Completed ==
    /\ pc = "done"
    /\ idx = NumRows
    /\ output_file = [ st |-> "written", rows |-> df ]
    /\ progress_file.st = "absent"

\* C40: a run that receives no stop signal visits the row indexes from the
\* last_row of the checkpoint upwards one by one, sends a row to the geocoder
\* at most once, and eventually has made the final save and removed the
\* progress file, whatever the geocoder returns.
C40_Terminates ==
    /\ [][ pc = "init" => (pc' = "loop" => idx' = progress_file.rec.last_row) ]_vars
    /\ [][ pc # "init" => (idx' = idx \/ idx' = idx + 1) ]_vars
    /\ [][ sent' # sent => (idx \notin sent /\ sent' = sent \cup { idx }) ]_vars
    /\ (pc = "init") ~> (Completed \/ intr_idx # -1)

\* ------------------------------------------------------------------------
\* geocode_restaurant_strict: properties
\* ------------------------------------------------------------------------
\* the last call returned a place with coordinates and an address (line 568)
Validated == g_last.verdict \notin { "none", "no_place", "incomplete", "error" }

\* check 3 as a predicate of the candidate
PincodeOk(place, expected) ==
    LET found == extract_pincode_from_address(place.address)
        want == pincode_to_str(expected.pincode)
    IN  (found # None /\ want # None) => (found = want \/ Prefix3(found) = Prefix3(want))

\* checks 2 to 5 as a predicate of the candidate
Checks2to5(place, expected) ==
    /\ place.distance <= 10000
    /\ PincodeOk(place, expected)
    /\ validate_city_match(place.address, expected.city)
    /\ validate_state_match(place.address, expected.state)

\* C9: a candidate farther than 10,000 m from the anchor is rejected by the
\* distance check whatever its name similarity, no later check (postal code,
\* city, state) is evaluated for it, and nothing of it reaches the result.
C9_DistancePrecedence ==
    (Validated /\ g_last.place.distance > 10000) =>
        /\ g_last.verdict = "distance"
        /\ g_last.checks = << "name", "distance" >>
        /\ g_result = NullResult

\* C9 witness: a candidate with name similarity 1.0 was rejected for distance.
C9_Witness ==
    /\ g_last.verdict = "distance"
    /\ g_last.score = << 1, 1 >>
    /\ g_last.place.distance > 10000

\* C10: a candidate with coordinates and address is accepted iff it passes
\* checks 2 to 5, whatever its name-similarity score, and an accepted candidate
\* is what the function returns.
C10_NameNeverGates ==
    Validated =>
        /\ (g_last.verdict = "accept") <=> Checks2to5(g_last.place, g_expected)
        /\ g_last.verdict = "accept" =>
              g_pc = "returned" /\ g_result = FilledResult(g_last.place)

\* C10 witness: a candidate with name similarity 0 was accepted and returned.
C10_Witness ==
    /\ g_last.verdict = "accept"
    /\ g_last.score = << 0, 1 >>
    /\ g_pc = "returned"
    /\ g_result.Found_Restaurant_Name = g_last.place.name

\* C11: as long as no candidate was accepted, and after the function returned
\* without an accepted candidate, every field of the result is null, whichever
\* check rejected the candidates met so far.
C11_RejectedNeverLeaks ==
    g_last.verdict # "accept" => g_result = NullResult

\* C11 witness: three formulations were tried, the last candidate was complete
\* and rejected by a check, and the function returned the null result.
C11_Witness ==
    /\ g_pc = "returned"
    /\ g_calls = 3
    /\ g_last.verdict \in { "distance", "pincode", "city", "state" }
    /\ g_last.place.name # << >>
    /\ g_result = NullResult

\* two postal codes share their first three digits
SameRegion(a, b) ==
    Len(a) >= 3 /\ Len(b) >= 3 /\ \A i \in 1 .. 3 : a[i] = b[i]

\* the candidate of the last call reached check 3
ReachedPincode == Validated /\ g_last.place.distance <= 10000

\* C12: for a candidate that reaches the postal-code check, when the expected
\* and the found postal code are both present the check rejects iff they are
\* neither equal nor in the same three-digit region; when the address has no
\* postal code the check does not reject and the city check is evaluated next.
C12_PincodeCheck ==
    ReachedPincode =>
        LET found == extract_pincode_from_address(g_last.place.address)
            want == pincode_to_str(g_expected.pincode)
        IN  /\ (found # None /\ want # None) =>
                 ((g_last.verdict = "pincode") <=> ~(found = want \/ SameRegion(found, want)))
            /\ found = None =>
                 /\ g_last.verdict # "pincode"
                 /\ Len(g_last.checks) >= 4 /\ g_last.checks[4] = "city"

\* C12 witness: a found postal code that differs from the expected one and
\* shares its first three digits passed the check and the candidate was accepted.
C12_Witness ==
    /\ g_last.verdict = "accept"
    /\ pincode_to_str(g_expected.pincode) = Pin411001
    /\ extract_pincode_from_address(g_last.place.address) = Pin411045

\* C20: between any two consecutive searches issued by geocode_restaurant_strict
\* a pacing delay has elapsed, whatever the earlier search ended in (no place,
\* an incomplete or a rejected candidate, an error).
C20_PacedCalls ==
    \A i \in 1 .. (Len(g_trace) - 1) :
        g_trace[i] = "call" => g_trace[i + 1] = "sleep"

\* the parts of the name, city and state arguments, in the order of the queries
Specificity ==
    << strip(g_expected.provider_name), StripName(g_expected.city),
       StripName(g_expected.state) >>

\* C31: the i-th query sent is made of the first i of name, city and state; a
\* query is sent only when no earlier query ended in an accepted candidate; and
\* an accepted candidate ends the function with that candidate as the result.
C31_FirstPassingQueryWins ==
    /\ Len(g_sent) <= 3
    /\ \A i \in 1 .. Len(g_sent) :
          /\ g_sent[i].query = SubSeq(Specificity, 1, i)
          /\ i < Len(g_sent) => g_sent[i].verdict # "accept"
    /\ \A i \in 1 .. Len(g_sent) :
          g_sent[i].verdict = "accept" =>
            /\ g_pc = "returned"
            /\ g_last.verdict = "accept"
            /\ g_result = FilledResult(g_last.place)

\* C31 witness: the name alone gave no place, name and city gave a candidate
\* that passed every check, and the function returned without sending the
\* third query.
C31_Witness ==
    /\ g_pc = "returned"
    /\ Len(g_sent) = 2
    /\ g_sent[1].verdict = "no_place"
    /\ g_sent[2].verdict = "accept"
    /\ Len(g_sent[2].query) = 2
    /\ g_result = FilledResult(g_last.place)

\* the scores of the strategies of validate_restaurant_name that apply to a pair
\* of names: 1 when the cleaned names are equal, shorter/longer when one
\* contains the other, the overlap ratio of the word sets without stop words,
\* and the ratio of the characters matched in order
ApplicableScores(found_name, expected_name) ==
    LET found_clean == strip(lower(found_name))
        expected_clean == strip(lower(expected_name))
        shorter == Min(Len(expected_clean), Len(found_clean))
        longer == Max(Len(expected_clean), Len(found_clean))
        expected_words == SplitWords(expected_clean, << >>, {})
        found_words == SplitWords(found_clean, << >>, {})
        expected_words_clean ==
            IF expected_words \ stop_words = {} THEN expected_words
            ELSE expected_words \ stop_words
        found_words_clean ==
            IF found_words \ stop_words = {} THEN found_words ELSE found_words \ stop_words
        overlap == Cardinality(expected_words_clean \cap found_words_clean)
        max_len == Max(Cardinality(expected_words_clean), Cardinality(found_words_clean))
    IN  (IF found_clean = expected_clean THEN { Frac(1, 1) } ELSE {})
        \cup (IF longer > 0 /\ (IsSubstring(expected_clean, found_clean)
                                   \/ IsSubstring(found_clean, expected_clean))
                THEN { Frac(shorter, longer) } ELSE {})
        \cup (IF expected_words_clean # {} /\ found_words_clean # {}
                THEN { Frac(overlap, max_len) } ELSE {})
        \cup (IF longer > 0
                THEN { Frac(MatchInOrder(found_clean, expected_clean, 0), longer) }
                ELSE {})
        \cup { Frac(0, 1) }

\* the greatest score of a set of scores
BestScore(scores) == CHOOSE x \in scores : \A y \in scores : ScoreGE(x, y)

\* C32: for a found name and an expected name that are both non-empty, the
\* similarity score validate_restaurant_name reports is the greatest of the
\* scores of the strategies that apply to the pair.
C32_ScoreIsMaximum ==
    (g_last.verdict \notin { "none", "no_place", "error" } /\ g_last.place.name # << >>) =>
        g_last.score = BestScore(ApplicableScores(g_last.place.name,
                                                  strip(g_expected.provider_name)))

\* ------------------------------------------------------------------------
\* process_restaurants: properties
\* ------------------------------------------------------------------------
\* C5: after a stop signal the dataset is flushed exactly once, so the run
\* ends with one write made after the signal and the output workbook holding
\* the dataset in memory.
C5_FlushOnceOnSignal ==
    (r_pc = "interrupted" /\ r_pending # {}) =>
        /\ r_writes = r_sig_writes + 1
        /\ r_out = [ st |-> "written", rows |-> r_df ]

\* ------------------------------------------------------------------------
\* HistoricalTrafficModel: properties
\* ------------------------------------------------------------------------
\* the factor computed by the applied method lies in [0.30, 1.0]
FactorInRange ==
    t_pc = "done" => ScoreGE(t_out.factor, << 3, 10 >>) /\ ScoreGE(<< 1, 1 >>, t_out.factor)

\* C13: the traffic factor is within [0.30, 1.0] for every pincode, hour, day,
\* date and learned entry, and computing the traffic metadata never ends in an
\* unhandled error, also for an hour or a day outside their ranges.
C13_FactorBoundedNoError ==
    /\ FactorInRange
    /\ t_pc = "done" => t_out.raised = ""

\* the learned factor of the entry: its speed over the base speed of 30 km/h,
\* clamped to [0.30, 1.0]
LearnedFactor == Clamp(<< 3, 10 >>, << 1, 1 >>, Frac(t_learned.speed_kmh, 30))

\* the factor of the default patterns for the arguments
DefaultFactor == default_factor(t_pincode, t_hour, t_day_of_week, t_month)

\* learned * confidence + default * (1 - confidence)
Blend ==
    FracAdd(FracMul(LearnedFactor, t_learned.confidence),
            FracMul(DefaultFactor, OneMinus(t_learned.confidence)))

\* C33: with a learned entry of confidence above 0.7 the traffic factor is the
\* learned factor alone; with a learned entry of confidence 0.7 or less it is
\* learned * confidence + default * (1 - confidence); without a learned entry
\* it is the default factor alone.
C33_BlendingRule ==
    t_pc = "done" =>
        /\ (t_learned.present /\ FracGT(t_learned.confidence, << 7, 10 >>)) =>
              t_out.factor = LearnedFactor
        /\ (t_learned.present /\ ~FracGT(t_learned.confidence, << 7, 10 >>)) =>
              t_out.factor = Blend
        /\ ~t_learned.present => t_out.factor = DefaultFactor

\* C33 witness: an entry learned from 7 samples (confidence 0.7) was blended:
\* the factor returned is neither the learned nor the default factor.
C33_Witness ==
    /\ t_pc = "done"
    /\ t_out.op = "calculate_traffic_factor"
    /\ t_learned.present
    /\ t_learned.confidence = << 7, 10 >>
    /\ t_out.factor = Blend
    /\ t_out.factor # LearnedFactor
    /\ t_out.factor # DefaultFactor

\* ------------------------------------------------------------------------
\* Zone generation: properties
\* ------------------------------------------------------------------------
\* the traffic factor of the task
TaskFactor ==
    calculate_traffic_factor(z_task.pincode, z_task.hour, z_task.day_of_week, z_task.month,
                             z_task.learned)

\* scenario C: distances [5] at hour 8 for a metro pincode without learned data,
\* and the routing service answered the request with a feature
ScenarioC ==
    /\ z_impl = "optimized"
    /\ z_task.distances_km = << 5 >>
    /\ z_task.hour = 8
    /\ detect_city_from_pincode(z_task.pincode)
          \in { "mumbai", "delhi", "bangalore", "chennai", "kolkata" }
    /\ ~z_task.learned.present
    /\ Len(z_sent) >= 1
    /\ z_outcomes[1] = "ok"

\* C14: in scenario C the traffic factor is about 0.50 (within a tenth of it),
\* the distance sent to the routing service is about 2.5 km, and the feature
\* holds the requested 5 km and the adjusted distance of about 2.5 km.
C14_ScenarioC ==
    ScenarioC =>
        /\ ScoreGE(TaskFactor, << 45, 100 >>) /\ ScoreGE(<< 55, 100 >>, TaskFactor)
        /\ z_sent[1].value \in 225 .. 275
        /\ z_features[1].requested_distance_km = 5
        /\ z_features[1].adjusted_distance_km \in 225 .. 275

\* C15: every distance band is sent as the requested distance times the
\* traffic factor rounded to 2 decimals, every time band is sent as the
\* requested duration, and the features of both kinds hold the traffic metadata.
C15_DistanceAdjustedTimeNot ==
    z_impl = "optimized" =>
        /\ \A i \in DOMAIN z_sent :
              /\ z_sent[i].kind = "distance" =>
                    z_sent[i].value
                      \in RoundScaled(FracMul(<< z_sent[i].requested, 1 >>, TaskFactor), 100)
              /\ z_sent[i].kind = "time" => z_sent[i].value = z_sent[i].requested
        /\ \A j \in DOMAIN z_features :
              /\ z_features[j].meta.raised = ""
              /\ z_features[j].meta
                    \in get_traffic_metadata(z_task.pincode, z_task.hour, z_task.day_of_week,
                                             z_task.month, z_task.learned)

\* C15 witness: a distance band was sent shortened, a time band was sent as
\* requested, and the document holds a feature of each kind.
C15_Witness ==
    /\ z_impl = "optimized"
    /\ z_pc = "returned"
    /\ Len(z_features) = 2
    /\ z_features[1].zone_type = "distance" /\ z_features[2].zone_type = "time"
    /\ z_sent[1].value < z_sent[1].requested * 100
    /\ z_sent[Len(z_sent)].kind = "time"
    /\ z_sent[Len(z_sent)].value = 15

\* the band requests made so far with their outcomes
Attempts ==
    [ i \in DOMAIN z_sent |->
        [ kind |-> z_sent[i].kind, requested |-> z_sent[i].requested,
          outcome |-> z_outcomes[i] ] ]

\* those of them that produced a feature
OkAttempts == SelectSeq(Attempts, LAMBDA b : b.outcome = "ok")

\* generate_all_zones_for_provider ran to its end
AllZonesReturned ==
    \/ z_pc = "combine"
    \/ z_pc = "returned" /\ z_result.error \notin { "IndexError", "KeyError" }

\* C16: the features are exactly those of the band requests that succeeded, in
\* the order requested, and when generate_all_zones_for_provider returns every
\* requested band has been attempted, whatever the earlier bands ended in.
C16_BandIsolation ==
    /\ Len(z_outcomes) = Len(z_sent)
    /\ Len(z_features) = Len(OkAttempts)
    /\ \A j \in DOMAIN z_features :
          /\ z_features[j].zone_type = OkAttempts[j].kind
          /\ z_features[j].label = OkAttempts[j].requested
    /\ AllZonesReturned =>
          [ i \in DOMAIN z_sent |-> [ kind |-> z_sent[i].kind,
                                      requested |-> z_sent[i].requested ] ]
            = Bands(z_task, z_impl)

\* C16 witness: the first band failed after its retries, a later band was
\* still requested and its feature is in the document.
C16_Witness ==
    /\ z_pc = "combine"
    /\ Len(z_sent) >= 2
    /\ z_outcomes[1] = "failed"
    /\ z_outcomes[2] = "ok"
    /\ Len(z_features) >= 1
    /\ z_features[1].label = z_sent[2].requested

\* C17: process_single_provider returns success only with at least one zone and
\* the artifact file written; when no band produced a feature it returns
\* failed with a null filepath and no artifact file exists.
C17_EmptyIsFailure ==
    /\ z_pc \in { "bands", "combine" } => z_files = {}
    /\ z_pc = "returned" =>
          /\ z_result.status \in { "success", "failed" }
          /\ z_result.status = "success" =>
                /\ z_result.zones_count >= 1
                /\ z_result.zones_count = Len(z_features)
                /\ z_result.filepath \in z_files
          /\ z_features = << >> =>
                /\ z_result.status = "failed"
                /\ z_result.filepath = None
                /\ z_result.zones_count = 0
                /\ z_files = {}

\* C17 witness: every band of the task was requested, none produced a feature,
\* and the task ended failed without an artifact.
C17_Witness ==
    /\ z_pc = "returned"
    /\ Len(z_sent) >= 2
    /\ Len(z_sent) = Len(Bands(z_task, z_impl))
    /\ z_features = << >>
    /\ z_result = FailedResult("No zones generated successfully")
    /\ z_files = {}

\* ------------------------------------------------------------------------
\* The HTTP clients: properties
\* ------------------------------------------------------------------------
\* C18: an attempt answered with a 4xx status other than 429 is the last
\* attempt of the call, and the call returns None right after it.
C18_ClientErrorNotRetried ==
    \A i \in DOMAIN c_log :
        c_log[i] \in ClientErrors =>
            /\ i = Len(c_log)
            /\ c_pc = "returned"
            /\ c_ret = "None"

\* C19: a call makes at most max_retries attempts, returns None when every
\* attempt failed, and never raises, whatever the mode and the other arguments.
C19_BoundedNeverRaises ==
    /\ Len(c_log) <= c_args.max_retries
    /\ c_pc # "raised"
    /\ (c_pc = "returned" /\ \A i \in DOMAIN c_log : c_log[i] # 200) => c_ret = "None"

\* ------------------------------------------------------------------------
\* The entry of the batch flows: properties
\* ------------------------------------------------------------------------
\* C21: when a required column is absent from the input workbook, the run makes
\* no API call and writes no output, it does not go on to dispatch rows or to
\* complete, and the error it aborts with lists the missing columns.
C21_SchemaViolationFatal ==
    LET m == missing_cols(required_cols(s_flow), s_columns) IN
      m # << >> =>
        /\ s_log = {}
        /\ s_pc \in { "start", "loop", "aborted" }
        /\ s_pc = "aborted" => s_error.names = m

\* ------------------------------------------------------------------------
\* The worker-pool flows: properties
\* ------------------------------------------------------------------------
\* the rows load_from_excel has gone through
Loaded == { r \in Tasks : r < p_idx }

\* the zones_file cell of the row is populated
Populated(r) == p_rows[r].zones_file # "empty"

\* the file the zones_file cell of the row refers to exists
ReferencedExists(r) ==
    \/ p_rows[r].zones_file = "own" /\ p_rows[r].own
    \/ p_rows[r].zones_file = "other" /\ p_rows[r].other

\* the row was skipped, on either list
Skipped(r) == r \in Range(p_lists.skipped_excel) \cup Range(p_lists.skipped_file)

\* C22 as stated: a row of the plain zone flow is skipped iff its zones_file is
\* populated and the file it refers to exists, and a row whose zones_file is
\* populated while that file is gone is resubmitted.
C22_SkippedIffPopulatedAndExists ==
    p_impl = "plain" =>
      \A r \in Loaded :
        /\ Skipped(r) <=> (Populated(r) /\ ReferencedExists(r))
        /\ (Populated(r) /\ ~ReferencedExists(r)) => r \in Range(p_lists.all_tasks)

\* C22 amended: with skip_existing set, a row is skipped as already in the
\* workbook iff its zones_file is populated and the file it refers to exists;
\* any other row is skipped iff the artifact generate_filename names for it
\* exists in output_dir; a row is resubmitted iff neither holds or skip_existing
\* is not set, which includes the row whose zones_file is populated, whose file
\* is gone and whose artifact is not in output_dir.
C22_SkipFilter ==
    p_impl = "plain" =>
      \A r \in Loaded :
        LET in_excel == p_skip_existing /\ Populated(r) /\ ReferencedExists(r)
            on_disk == p_skip_existing /\ ~in_excel /\ p_rows[r].own
        IN  /\ r \in Range(p_lists.skipped_excel) <=> in_excel
            /\ r \in Range(p_lists.skipped_file) <=> on_disk
            /\ r \in Range(p_lists.all_tasks) <=> (~in_excel /\ ~on_disk)

\* C22 witness: the loader has finished a workbook in which one row was skipped
\* as already in the workbook and another, whose zones_file is populated while
\* its file is gone, was made a task.
C22_Witness ==
    /\ p_impl = "plain"
    /\ p_skip_existing
    /\ p_pc = "submit"
    /\ \E r \in Tasks : r \in Range(p_lists.skipped_excel)
    /\ \E r \in Tasks :
         Populated(r) /\ ~ReferencedExists(r) /\ r \in Range(p_lists.all_tasks)

\* the step is one of the worker thread of task t: the thread takes the task,
\* its band request ends, or process_single_provider returns
WorkerStep(t) ==
    /\ p_futures'[t].st # p_futures[t].st
    /\ p_futures'[t].st \in { "running", "adding", "finished" }

\* the tasks whose worker has returned with the given status
Returned(status) ==
    { t \in Tasks : p_futures[t].st \in { "finished", "collected" }
                    /\ p_futures[t].status = status }

\* every increment of a counter of the shared statistics is in the counter
NoLostUpdate ==
    p_impl = "optimized" =>
      /\ p_stats.generated = Cardinality(Returned("success"))
      /\ p_stats.failed = Cardinality(Returned("failed"))

\* C24: no step of a worker thread writes the shared generator statistics, and
\* the counters of the statistics never miss an increment.
C24_SingleWriter ==
    /\ [][(\E t \in Tasks : WorkerStep(t)) => p_stats' = p_stats]_vars
    /\ []NoLostUpdate

\* C25: when add_results_to_excel has run, every row that was a task holds the
\* outcome of its own task, whatever the order in which the workers completed,
\* no other row holds an outcome, and the workbook on disk is that dataset.
C25_MergeKeyedByRow ==
    p_pc = "done" =>
      /\ \A r \in Tasks :
           IF p_futures[r].st = "collected"
             THEN /\ p_df[r].processing_status = p_futures[r].status
                  /\ p_futures[r].status = "success" => p_df[r].zones_file = "own"
             ELSE p_df[r].processing_status \notin { "success", "failed" }
      /\ p_disk.written /\ p_disk.rows = p_df

\* C25 witness: the results were merged after they arrived in an order other
\* than the order of submission, with different outcomes.
C25_Witness ==
    /\ p_pc = "done"
    /\ Len(p_results) >= 2
    /\ p_results[1].excel_idx > p_results[2].excel_idx
    /\ p_results[1].status # p_results[2].status

\* the results collected whose outcome is in no workbook on disk
Unflushed == IF p_disk.written THEN 0 ELSE Len(p_results)

\* C26: while process_batch collects results, the dataset is written after
\* every so many of them, for some interval shorter than the batch: the
\* results that are in no written workbook never number the whole batch.
C26_PeriodicFlush ==
    (p_pc = "collect" /\ Len(p_lists.all_tasks) >= 2) =>
      Unflushed < Len(p_lists.all_tasks)

\* C27: no task is taken from the queue by a worker thread after the stop
\* signal was raised in the orchestrator.
C27_NoStartAfterStop == \A t \in DOMAIN p_futures : ~p_futures[t].late

\* ------------------------------------------------------------------------
\* process_restaurants (src/geocode_restaurants.py): properties
\* ------------------------------------------------------------------------
\* the rows the loop has gone through
EVisited == { r \in Rows : r < e_idx }

\* the row is not done yet and lacks its name or its city
EMissing(r) == ~e_input[r].located /\ (e_input[r].name = "nan" \/ ~e_input[r].city)

\* C23: a row that lacks mandatory input causes no API request and is not
\* counted as failed: the failures number at most the visited rows that had
\* their input and were not done yet.
C23_MissingInputSkipped ==
    /\ \A r \in Rows : EMissing(r) => r \notin e_calls
    /\ e_cnt.failed <=
         Cardinality({ r \in EVisited : ~e_input[r].located /\ ~EMissing(r) })

\* C28: the run does not end before every row was visited, whatever the rows
\* hold: a row with a missing or non-text name does not abort the batch.
C28_ItemErrorsDoNotAbort ==
    e_pc \in { "done", "aborted" } => e_idx >= NumRows

\* ------------------------------------------------------------------------
\* The end of a run: properties
\* ------------------------------------------------------------------------
\* the counts in the last block process_restaurants or main of geocode-new.py
\* prints before the run ends: FINAL RESULTS (lines 851-866) after the final
\* save, PROCESSING STATUS (lines 733-744) before the early return, and no
\* count at all in the KeyboardInterrupt handler of main (lines 914-917)
FinalCounts ==
    CASE r_pc = "done" ->
           { "processed", "successful", "failed", "skipped_no_coords", "skipped_already_done" }
      [] r_pc = "returned" ->
           { "total_rows", "valid_coords_count", "already_processed", "needs_processing" }
      [] OTHER -> {}

\* C29: a run that has ended has printed a final summary holding the count of
\* successes, the count of failures and a count of skipped rows, also when it
\* ended by interruption.
C29_FinalSummary ==
    r_pc \in { "done", "returned", "interrupted" } =>
      /\ { "successful", "failed" } \subseteq FinalCounts
      /\ FinalCounts \cap { "skipped_no_coords", "skipped_already_done" } # {}

\* the row loop of GeocoderBatch.process is over: the run is in its final save,
\* at the unlink or past it (batch.py:204-214)
AfterLoop ==
    /\ ret = "final"
    /\ pc \in { "sp_open", "sp_dump", "save_output", "unlink", "unlinked" }

\* C30: a stop signal delivered once the row loop has ended, during the final
\* save or after the progress file was removed, does not start the interrupt
\* handler, which ends the run as interrupted and writes a progress file.
C30_InterruptedFromDispatchingOnly == [][AfterLoop => ret' # "intr"]_vars

\* ------------------------------------------------------------------------
\* Zone file names: properties
\* ------------------------------------------------------------------------
\* C37: within one batch no two work items write the same zone file, also for
\* items with equal identity fields or with names that differ only in
\* characters clean_string replaces.
C37_OneFilePerItem ==
    \A i, j \in DOMAIN f_writes :
        i # j => f_writes[i].filename # f_writes[j].filename

\* C38: parse_filename applied to the name generate_filename produced for a
\* work item succeeds and returns the item's cleaned bpp id, provider name,
\* provider id and pincode, whatever characters the fields hold.
C38_FilenameRoundTrip ==
    \A i \in DOMAIN f_writes :
        \A p \in f_parsed :
            p.filename = f_writes[i].filename =>
                LET task == f_tasks[f_writes[i].item] IN
                  p.parsed = [ ok |-> TRUE,
                               bpp_id |-> clean_string(task.bpp_id),
                               provider_name |-> clean_string(task.name),
                               provider_id |-> clean_string(task.provider_id),
                               pincode |-> clean_string(task.pincode) ]

\* ------------------------------------------------------------------------
\* SmartBatchProcessor: the lists of load_from_excel and the summary
\* ------------------------------------------------------------------------
\* the lists that hold the row
ListsOf(r) == { l \in DOMAIN p_lists : r \in Range(p_lists[l]) }

\* C39: every row load_from_excel has visited is on exactly one of all_tasks,
\* skipped_excel and skipped_file and appears there once; a row on
\* skipped_excel has a populated zones_file whose file exists, a row on
\* skipped_file has its generated file in output_dir; and total_providers of
\* the summary is the number of rows with coordinates.
C39_LoadPartitions ==
    p_impl = "plain" =>
      /\ \A r \in Loaded : Cardinality(ListsOf(r)) = 1
      /\ Len(p_lists.all_tasks) + Len(p_lists.skipped_excel) + Len(p_lists.skipped_file)
            = Cardinality(Loaded)
      /\ \A r \in Range(p_lists.skipped_excel) : Populated(r) /\ ReferencedExists(r)
      /\ \A r \in Range(p_lists.skipped_file) :
            p_rows[r].own /\ ~(Populated(r) /\ ReferencedExists(r))
      /\ p_disk.written => p_disk.summary.total_providers = NumTasks

\* C39 witness: a workbook with a row on each of the three lists was processed
\* and its summary written.
C39_Witness ==
    /\ p_impl = "plain"
    /\ p_pc = "done"
    /\ p_lists.all_tasks # << >>
    /\ p_lists.skipped_excel # << >>
    /\ p_lists.skipped_file # << >>
    /\ p_disk.summary.total_providers = NumTasks

====
